---- MODULE Spec2Model ----
(***************************************************************************)
(* A model of the database-generation scripts:                             *)
(*   AnimalGame/DatabaseGeneration/FillDataFromPantheria.py                *)
(*   AnimalGame/DatabaseGeneration/AddPopulationGrpSizeFromPantheria.py    *)
(*   MammalMania/DatabaseGeneration/build_mammals_csv.py                   *)
(*   MammalMania/DatabaseGeneration/AddSoundFromWikipedia.py               *)
(*                                                                         *)
(* A Python str is a sequence of one-character strings, so that trimming,  *)
(* lowercasing, splitting and tokenizing are computed character by         *)
(* character.  The absent value None of an optional str is the sequence    *)
(* <<"None">>, which no character string equals; an optional number or     *)
(* record is <<>> when absent and <<v>> when present.                      *)
(***************************************************************************)
EXTENDS Integers, Sequences, FiniteSets, TLC

VARIABLES
    prog,               \* the script whose main() is running
    pc,                 \* where that script is: "load", "rows", "done"
    args,               \* the script's arguments (the function's, for a pure function)
    pantheria_file,     \* the legacy rows read so far by load_pantheria_index
    index,              \* load_pantheria_index: normalized key -> legacy row
    rows,               \* the output rows so far (kept_rows / rows)
    stats,              \* the script's counters
    last,               \* the input and the outcome of the latest loop iteration
    label_cache,        \* build_csv: qid -> label or None
    page_cache,         \* add_sound_column: wiki title -> sound URL
    file_url_cache,     \* add_sound_column: normalized file title -> URL
    requests            \* add_sound_column: the external lookups made, per key

legacy_vars == <<pantheria_file, index>>

media_vars == <<label_cache, page_cache, file_url_cache, requests>>

vars == <<prog, pc, args, rows, stats, last, legacy_vars, media_vars>>

(***************************************************************************)
(* Bounds of the model.                                                    *)
(***************************************************************************)
MaxLegacyRows == 2
MaxRows == 2

(***************************************************************************)
(* Python str operations.                                                  *)
(***************************************************************************)
None == <<"None">>

UpperChars == <<"A","B","C","D","E","F","G","H","I","J","K","L","M",
                "N","O","P","Q","R","S","T","U","V","W","X","Y","Z">>
LowerChars == <<"a","b","c","d","e","f","g","h","i","j","k","l","m",
                "n","o","p","q","r","s","t","u","v","w","x","y","z">>
DigitChars == <<"0","1","2","3","4","5","6","7","8","9">>

char_lower(c) ==
    IF \E i \in 1..26 : UpperChars[i] = c
    THEN LowerChars[CHOOSE i \in 1..26 : UpperChars[i] = c]
    ELSE c

str_lower(s) == [i \in 1..Len(s) |-> char_lower(s[i])]

IsSpace(c) == c \in {" ", "\t", "\n"}

IsDigit(c) == \E i \in 1..10 : DigitChars[i] = c

DigitValue(c) == (CHOOSE i \in 1..10 : DigitChars[i] = c) - 1

RECURSIVE str_lstrip(_)
str_lstrip(s) ==
    IF s /= <<>> /\ IsSpace(Head(s)) THEN str_lstrip(Tail(s)) ELSE s

RECURSIVE str_rstrip(_)
str_rstrip(s) ==
    IF s /= <<>> /\ IsSpace(s[Len(s)])
    THEN str_rstrip(SubSeq(s, 1, Len(s) - 1))
    ELSE s

str_strip(s) == str_rstrip(str_lstrip(s))

\* The length of the longest prefix of s made of non-whitespace characters.
RECURSIVE WordLen(_)
WordLen(s) ==
    IF s = <<>> \/ IsSpace(Head(s)) THEN 0 ELSE 1 + WordLen(Tail(s))

\* str.split(): the maximal runs of non-whitespace characters, in order.
RECURSIVE str_split(_)
split_at(t, n) == <<SubSeq(t, 1, n)>> \o str_split(SubSeq(t, n + 1, Len(t)))

split_stripped(t) == IF t = <<>> THEN <<>> ELSE split_at(t, WordLen(t))

str_split(s) == split_stripped(str_lstrip(s))

\* " ".join(parts)
RECURSIVE str_join(_)
str_join(parts) ==
    IF parts = <<>> THEN <<>>
    ELSE IF Len(parts) = 1 THEN parts[1]
    ELSE parts[1] \o <<" ">> \o str_join(Tail(parts))

\* s.rstrip(c) for one character c
RECURSIVE str_rstrip_char(_, _)
str_rstrip_char(s, c) ==
    IF s /= <<>> /\ s[Len(s)] = c
    THEN str_rstrip_char(SubSeq(s, 1, Len(s) - 1), c)
    ELSE s

\* str(n) of an integer n >= 0
RECURSIVE NatToStr(_)
NatToStr(n) ==
    IF n < 10 THEN <<DigitChars[n + 1]>>
    ELSE NatToStr(n \div 10) \o <<DigitChars[(n % 10) + 1]>>

RECURSIVE Pow10(_)
Pow10(k) == IF k = 0 THEN 1 ELSE 10 * Pow10(k - 1)

\* n >= 0 written with exactly k digits (leading zeros)
RECURSIVE ZeroPad(_, _)
ZeroPad(n, k) ==
    IF k = 0 THEN <<>>
    ELSE ZeroPad(n \div 10, k - 1) \o <<DigitChars[(n % 10) + 1]>>

(***************************************************************************)
(* FillDataFromPantheria.py and AddPopulationGrpSizeFromPantheria.py.      *)
(* normalize_name, to_binomial, parse_pantheria_number and                 *)
(* load_pantheria_index are the same text in both files.                   *)
(*                                                                         *)
(* A float read from the legacy file is an integer number of hundredths    *)
(* (PanTHERIA prints two decimals).                                        *)
(***************************************************************************)
MISSING_SENTINEL == -999

Hundredths == 10 * 10

PANTHERIA_POP_COLUMN == "10-1_PopulationGrpSize"

\* PANTHERIA_TO_TARGET, in the order of the dict
PANTHERIA_TO_TARGET ==
    << <<"5-1_AdultBodyMass_g", "mass_kg">>,
       <<"9-1_GestationLen_d", "gestation_days">>,
       <<"15-1_LitterSize", "litter_size">>,
       <<"17-1_MaxLongevity_m", "lifespan_yr">> >>

\* A normalization that trims and lowercases but keeps the runs of blanks
normalize_name_keeps_runs(value) ==
    IF value = None THEN <<>> ELSE str_lower(str_strip(value))

\* " ".join((value or "").strip().lower().split())
normalize_name(value) ==
    IF value = None THEN <<>>
    ELSE str_join(str_split(str_lower(str_strip(value))))

first_two(parts, normalized_name) ==
    IF Len(parts) >= 2
    THEN parts[1] \o <<" ">> \o parts[2]
    ELSE normalized_name

to_binomial(normalized_name) == first_two(str_split(normalized_name), normalized_name)

IsDigits(s) == \A i \in 1..Len(s) : IsDigit(s[i])

RECURSIVE DigitsValue(_)
DigitsValue(s) ==
    IF s = <<>> THEN 0
    ELSE 10 * DigitsValue(SubSeq(s, 1, Len(s) - 1)) + DigitValue(s[Len(s)])

\* float(raw) for a decimal literal [sign] digits [. digits]: <<hundredths>>,
\* or <<>> where float() raises ValueError.  The numeric fields of LegacyRows
\* are decimal literals of at most two decimals, or no number at all.
digits_value(ip, fp) ==
    IF IsDigits(ip) /\ IsDigits(fp) /\ Len(ip) + Len(fp) > 0
    THEN <<DigitsValue(ip) * Hundredths
           + DigitsValue(SubSeq(fp \o <<"0", "0">>, 1, 2))>>
    ELSE <<>>

decimal_value(body, dots) ==
    IF Cardinality(dots) > 1 THEN <<>>
    ELSE IF dots = {} THEN digits_value(body, <<>>)
    ELSE digits_value(SubSeq(body, 1, (CHOOSE i \in dots : TRUE) - 1),
                      SubSeq(body, (CHOOSE i \in dots : TRUE) + 1, Len(body)))

unsigned_float(body) == decimal_value(body, {i \in 1..Len(body) : body[i] = "."})

with_sign(sign, magnitude) ==
    IF magnitude = <<>> THEN <<>>
    ELSE IF sign = "-" THEN <<0 - magnitude[1]>>
    ELSE magnitude

float_of(raw) ==
    IF raw /= <<>> /\ raw[1] \in {"-", "+"}
    THEN with_sign(raw[1], unsigned_float(Tail(raw)))
    ELSE unsigned_float(raw)

\* A test that drops only the values below the sentinel
drop_below_sentinel(value) ==
    IF value = <<>> THEN <<>>
    ELSE IF value[1] < MISSING_SENTINEL * Hundredths THEN <<>>
    ELSE value

\* "if value <= MISSING_SENTINEL: return None"
drop_sentinel(value) ==
    IF value = <<>> THEN <<>>
    ELSE IF value[1] <= MISSING_SENTINEL * Hundredths THEN <<>>
    ELSE value

parse_stripped(raw) == IF raw = <<>> THEN <<>> ELSE drop_sentinel(float_of(raw))

parse_pantheria_number(raw) ==
    IF raw = None THEN <<>> ELSE parse_stripped(str_strip(raw))

\* scaled/den rounded to an integer, a tie going to the even one
rounded_quotient(scaled, den) ==
    IF \/ 2 * (scaled % den) > den
       \/ (2 * (scaled % den) = den /\ (scaled \div den) % 2 = 1)
    THEN (scaled \div den) + 1
    ELSE scaled \div den

digits_text(q, p, decimals) ==
    NatToStr(q \div p)
    \o (IF decimals > 0 THEN <<".">> \o ZeroPad(q % p, decimals) ELSE <<>>)

\* f"{num/den:.{decimals}f}": the value rounded to `decimals` decimals, with
\* its sign.
fixed_point_text(num, den, decimals) ==
    (IF num < 0 THEN <<"-">> ELSE <<>>)
    \o digits_text(rounded_quotient((IF num < 0 THEN 0 - num ELSE num) * Pow10(decimals), den),
                   Pow10(decimals), decimals)

\* text.rstrip("0").rstrip(".") when text has a "."
strip_zeros(text) ==
    IF \E i \in 1..Len(text) : text[i] = "."
    THEN str_rstrip_char(str_rstrip_char(text, "0"), ".")
    ELSE text

\* FillDataFromPantheria.format_number, of the value num/den
format_number(num, den, decimals) == strip_zeros(fixed_point_text(num, den, decimals))

\* str(int(round(value))) of a whole number of hundredths
whole_number_text(h) ==
    IF h < 0 THEN <<"-">> \o NatToStr((0 - h) \div Hundredths)
    ELSE NatToStr(h \div Hundredths)

\* convert_trait(source_column, value): value is <<>> (None) or <<hundredths>>
convert_trait(source_column, value) ==
    IF value = <<>> THEN None
    ELSE LET h == value[1] IN
         IF source_column = "5-1_AdultBodyMass_g"
         THEN IF h < 1000 * Hundredths
              THEN format_number(h, 1000 * Hundredths, 3)
              ELSE format_number(h, 1000 * Hundredths, 1)
         ELSE IF source_column = "9-1_GestationLen_d"
         THEN format_number(h, Hundredths, 1)
         ELSE IF source_column = "15-1_LitterSize"
         THEN IF h % Hundredths = 0
              THEN whole_number_text(h)
              ELSE format_number(h, Hundredths, 2)
         ELSE IF source_column = "17-1_MaxLongevity_m"
         THEN format_number(h, 12 * Hundredths, 1)
         ELSE None

\* AddPopulationGrpSizeFromPantheria.format_number
pop_format_number(h) ==
    IF h % Hundredths = 0 THEN whole_number_text(h)
    ELSE str_rstrip_char(str_rstrip_char(fixed_point_text(h, Hundredths, 2), "0"), ".")

\* dict.get(key, default) and dict[key] = value
DictGet(d, key, default) == IF key \in DOMAIN d THEN d[key] ELSE default

DictSet(d, key, value) ==
    [k \in DOMAIN d \cup {key} |-> IF k = key THEN value ELSE d[k]]

(***************************************************************************)
(* The legacy file and the mammals file: the rows a run may read.          *)
(***************************************************************************)
LegacyRow(name, mass, gest, litter, longev, pop) ==
    "MSW05_Binomial" :> name @@ "5-1_AdultBodyMass_g" :> mass
    @@ "9-1_GestationLen_d" :> gest @@ "15-1_LitterSize" :> litter
    @@ "17-1_MaxLongevity_m" :> longev @@ "10-1_PopulationGrpSize" :> pop

\* Names as the two files spell them.
SusScrofa      == <<"S","u","s"," ","s","c","r","o","f","a">>
SusScrofaLoose == <<" ","s","u","s"," "," ","S","C","R","O","F","A"," ">>
SusScrofaFerus == <<"S","u","s"," ","s","c","r","o","f","a"," ","f","e","r","u","s">>
SusScrofaMajor == <<"S","u","s","\t","s","c","r","o","f","a"," ","M","a","j","o","r">>
MusMusculus    == <<"M","u","s"," ","m","u","s","c","u","l","u","s">>
Mus            == <<"M","u","s">>
Blank          == <<" "," ">>

\* Numeric fields as the legacy file prints them.
NoData    == <<"-","9","9","9">>
NoData2   == <<"-","9","9","9",".","0","0">>
BelowData == <<"-","1","0","0","0">>
NotNumber == <<"N","A">>

LegacyRows ==
    { LegacyRow(SusScrofa, <<"8","4","5","0","0">>, <<"1","1","5",".","0","0">>,
                <<"4",".","5">>, <<"2","5","2">>, NoData),
      LegacyRow(SusScrofaLoose, NoData2, <<>>, <<"5">>, NotNumber,
                <<"2","0",".","2","5">>),
      LegacyRow(SusScrofaFerus, NoData, <<"1","2","0">>, BelowData,
                <<"2","4","0">>, <<" ","6"," ">>),
      LegacyRow(Blank, <<"2","1">>, <<"1","9">>, <<"7">>, <<"3","6">>, <<"3">>),
      LegacyRow(MusMusculus, NoData, NotNumber, <<>>, NoData2, <<"3">>) }

\* A mammals row: its scientific name, and either no target column yet or
\* target columns that already hold a value.
MammalRows ==
    { "scientific_name" :> n :
        n \in {SusScrofaLoose, SusScrofaFerus, SusScrofaMajor, MusMusculus, Mus} }
    \cup { "scientific_name" :> n @@ "mass_kg" :> <<"9">>
           @@ "lifespan_yr" :> <<>>
           @@ "population_grp_size" :> <<"1","2">> : n \in {SusScrofaMajor, Mus} }

(***************************************************************************)
(* load_pantheria_index: the body of its loop, for one row of the reader.  *)
(***************************************************************************)
\* set_first without the "key not in index" test: the latest row wins
set_first_overwrite(idx, key, row) ==
    IF key /= <<>> THEN DictSet(idx, key, row) ELSE idx

\* "if key and key not in index: index[key] = row"
set_first(idx, key, row) ==
    IF key /= <<>> /\ key \notin DOMAIN idx THEN DictSet(idx, key, row) ELSE idx

index_row(idx, row) ==
    set_first(idx, normalize_name(DictGet(row, "MSW05_Binomial", <<>>)), row)

(***************************************************************************)
(* The lookup both loops start with: pantheria_index.get(sci_name), and    *)
(* pantheria_index.get(to_binomial(sci_name)) when that is None.           *)
(***************************************************************************)
index_get(pantheria_index, key) ==
    IF key \in DOMAIN pantheria_index THEN <<pantheria_index[key]>> ELSE <<>>

\* find_pantheria_row trying the binomial key first
find_pantheria_row_binomial_first(pantheria_index, sci_name) ==
    IF to_binomial(sci_name) \in DOMAIN pantheria_index
    THEN index_get(pantheria_index, to_binomial(sci_name))
    ELSE index_get(pantheria_index, sci_name)

find_pantheria_row(pantheria_index, sci_name) ==
    IF sci_name \in DOMAIN pantheria_index
    THEN index_get(pantheria_index, sci_name)
    ELSE index_get(pantheria_index, to_binomial(sci_name))

(***************************************************************************)
(* fill_and_filter_mammals: the loop over PANTHERIA_TO_TARGET, from its    *)
(* i-th entry on; acc is [row, mapped_count].                              *)
(***************************************************************************)
fill_column(acc, target_col, converted) ==
    IF converted /= None
    THEN [row |-> DictSet(acc.row, target_col, converted),
          mapped_count |-> acc.mapped_count + 1]
    ELSE [row |-> DictSet(acc.row, target_col, DictGet(acc.row, target_col, <<>>)),
          mapped_count |-> acc.mapped_count]

RECURSIVE fill_columns(_, _, _)
fill_columns(acc, pantheria_row, i) ==
    IF i > Len(PANTHERIA_TO_TARGET) THEN acc
    ELSE fill_columns(
             fill_column(acc, PANTHERIA_TO_TARGET[i][2],
                 convert_trait(PANTHERIA_TO_TARGET[i][1],
                     parse_pantheria_number(
                         DictGet(pantheria_row, PANTHERIA_TO_TARGET[i][1], None)))),
             pantheria_row, i + 1)

\* too_sparse with the threshold at one filled column
too_sparse_below_one(mapped_count) == mapped_count < 1

\* mapped_count < 2: the row is too sparse to keep
too_sparse(mapped_count) == mapped_count < 2

\* "if mapped_count < 2: ... continue", else kept_rows.append(mammal_row)
fill_outcome(pantheria_row, filled) ==
    [outcome |-> IF too_sparse(filled.mapped_count)
                 THEN "dropped_too_sparse" ELSE "kept",
     match |-> pantheria_row, mapped_count |-> filled.mapped_count,
     row |-> filled.row]

\* fill_matched keeping a row that matched nothing
fill_matched_keeps_unmatched(mammal_row, pantheria_row) ==
    IF pantheria_row = <<>>
    THEN [outcome |-> "kept", match |-> <<>>, mapped_count |-> 0, row |-> mammal_row]
    ELSE fill_outcome(pantheria_row,
             fill_columns([row |-> mammal_row, mapped_count |-> 0], pantheria_row[1], 1))

\* The loop body of fill_and_filter_mammals once the lookup is done.
fill_matched(mammal_row, pantheria_row) ==
    IF pantheria_row = <<>>
    THEN [outcome |-> "dropped_no_match", match |-> <<>>, mapped_count |-> 0,
          row |-> mammal_row]
    ELSE fill_outcome(pantheria_row,
             fill_columns([row |-> mammal_row, mapped_count |-> 0], pantheria_row[1], 1))

\* One iteration of the loop of fill_and_filter_mammals.
fill_one(mammal_row, pantheria_index) ==
    fill_matched(mammal_row,
        find_pantheria_row(pantheria_index,
            normalize_name(DictGet(mammal_row, "scientific_name", <<>>))))

\* The branches of fill_population_group_size on raw_value.
pop_value(row, pantheria_row, target_column, raw_value) ==
    IF raw_value = <<>>
    THEN [outcome |-> "missing_trait", match |-> pantheria_row,
          row |-> DictSet(row, target_column, DictGet(row, target_column, <<>>))]
    ELSE [outcome |-> "filled", match |-> pantheria_row,
          row |-> DictSet(row, target_column, pop_format_number(raw_value[1]))]

\* The loop body of fill_population_group_size once the lookup is done.
pop_matched(row, pantheria_row, target_column) ==
    IF pantheria_row = <<>>
    THEN [outcome |-> "no_match", match |-> <<>>,
          row |-> DictSet(row, target_column, DictGet(row, target_column, <<>>))]
    ELSE pop_value(row, pantheria_row, target_column,
             parse_pantheria_number(DictGet(pantheria_row[1], PANTHERIA_POP_COLUMN, None)))

\* One iteration of the loop of fill_population_group_size.
pop_one(row, pantheria_index, target_column) ==
    pop_matched(row,
        find_pantheria_row(pantheria_index,
            normalize_name(DictGet(row, "scientific_name", <<>>))),
        target_column)

\* --column-name, at its default
target_column == "population_grp_size"

(***************************************************************************)
(* The two legacy scripts as state machines.  main() builds the index row  *)
(* by row, then runs the loop over the mammals file row by row.            *)
(***************************************************************************)
LegacyProgs == {"fill_and_filter_mammals", "fill_population_group_size"}

InitStats(p) ==
    IF p = "fill_and_filter_mammals"
    THEN [total |-> 0, dropped_no_match |-> 0, dropped_too_sparse |-> 0, kept |-> 0]
    ELSE [total |-> 0, matched |-> 0, filled |-> 0, missing_trait |-> 0, no_match |-> 0]

Bump(s, field) == [s EXCEPT ![field] = @ + 1]

InitLegacy ==
    /\ prog \in LegacyProgs
    /\ pc = "load"
    /\ pantheria_file = <<>>
    /\ index = <<>>
    /\ rows = <<>>
    /\ stats = InitStats(prog)
    /\ last = [op |-> "none"]
    /\ args = [column_name |-> target_column]
    /\ label_cache = <<>>
    /\ page_cache = <<>>
    /\ file_url_cache = <<>>
    /\ requests = <<>>

\* load_pantheria_index reads one more row
LoadRow ==
    /\ prog \in LegacyProgs /\ pc = "load"
    /\ Len(pantheria_file) < MaxLegacyRows
    /\ \E row \in LegacyRows :
          /\ pantheria_file' = Append(pantheria_file, row)
          /\ index' = index_row(index, row)
    /\ UNCHANGED <<prog, pc, rows, stats, last>>
    /\ UNCHANGED <<args, media_vars>>

\* load_pantheria_index returns at the end of the legacy file
EndLoad ==
    /\ prog \in LegacyProgs /\ pc = "load"
    /\ pc' = "rows"
    /\ UNCHANGED <<prog, pantheria_file, index, rows, stats, last>>
    /\ UNCHANGED <<args, media_vars>>

\* The counters, kept_rows and the record of an iteration with outcome r.
FillStep(mammal_row, r) ==
    /\ stats' = IF r.outcome = "kept"
                THEN Bump(stats, "total")
                ELSE Bump(Bump(stats, "total"), r.outcome)
    /\ rows' = IF r.outcome = "kept" THEN Append(rows, r.row) ELSE rows
    /\ last' = [op |-> "fill", input |-> mammal_row, match |-> r.match,
                outcome |-> r.outcome, mapped_count |-> r.mapped_count,
                row |-> r.row]

\* fill_and_filter_mammals reads one more mammals row
FillRow ==
    /\ prog = "fill_and_filter_mammals" /\ pc = "rows"
    /\ stats.total < MaxRows
    /\ \E mammal_row \in MammalRows : FillStep(mammal_row, fill_one(mammal_row, index))
    /\ UNCHANGED <<prog, pc, pantheria_file, index>>
    /\ UNCHANGED <<args, media_vars>>

\* fill_and_filter_mammals leaves its loop: stats["kept"] = len(kept_rows)
FillDone ==
    /\ prog = "fill_and_filter_mammals" /\ pc = "rows"
    /\ pc' = "done"
    /\ stats' = [stats EXCEPT !.kept = Len(rows)]
    /\ UNCHANGED <<prog, pantheria_file, index, rows, last>>
    /\ UNCHANGED <<args, media_vars>>

\* An iteration that counts a row as matched only when its value was filled
PopStep_matched_when_filled(row, r) ==
    /\ stats' = IF r.outcome = "filled"
                THEN Bump(Bump(Bump(stats, "total"), "matched"), r.outcome)
                ELSE Bump(Bump(stats, "total"), r.outcome)
    /\ rows' = Append(rows, r.row)
    /\ last' = [op |-> "pop", input |-> row, match |-> r.match,
                outcome |-> r.outcome, row |-> r.row]

\* The counters, rows and the record of an iteration with outcome r.
PopStep(row, r) ==
    /\ stats' = IF r.outcome = "no_match"
                THEN Bump(Bump(stats, "total"), "no_match")
                ELSE Bump(Bump(Bump(stats, "total"), "matched"), r.outcome)
    /\ rows' = Append(rows, r.row)
    /\ last' = [op |-> "pop", input |-> row, match |-> r.match,
                outcome |-> r.outcome, row |-> r.row]

\* fill_population_group_size reads one more mammals row
PopRow ==
    /\ prog = "fill_population_group_size" /\ pc = "rows"
    /\ stats.total < MaxRows
    /\ \E row \in MammalRows : PopStep(row, pop_one(row, index, target_column))
    /\ UNCHANGED <<prog, pc, pantheria_file, index>>
    /\ UNCHANGED <<args, media_vars>>

\* fill_population_group_size leaves its loop and writes the rows
PopDone ==
    /\ prog = "fill_population_group_size" /\ pc = "rows"
    /\ pc' = "done"
    /\ UNCHANGED <<prog, pantheria_file, index, rows, stats, last>>
    /\ UNCHANGED <<args, media_vars>>

NextLegacy == LoadRow \/ EndLoad \/ FillRow \/ FillDone \/ PopRow \/ PopDone

SpecLegacy == InitLegacy /\ [][NextLegacy]_vars

(***************************************************************************)
(* Claims about the legacy scripts, checked under SpecLegacy.              *)
(***************************************************************************)
LegacyKey(row) == normalize_name(row["MSW05_Binomial"])

\* The number of the four mapped columns for which the legacy row gives a
\* converted value.
FilledCount(pantheria_row) ==
    Cardinality({i \in 1..Len(PANTHERIA_TO_TARGET) :
        convert_trait(PANTHERIA_TO_TARGET[i][1],
                      parse_pantheria_number(pantheria_row[PANTHERIA_TO_TARGET[i][1]]))
            /= None})

\* A loop iteration has just processed a mammals row.
RowStep == pc = "rows" /\ pc' = "rows" /\ stats'.total = stats.total + 1

\* C5 as stated: after a row that matched nothing, the row is the latest
\* output row, in both scripts.
C5_UnmatchedRowIsOutput ==
    (last.op \in {"fill", "pop"} /\ last.match = <<>>)
        => (rows /= <<>> /\ rows[Len(rows)] = last.row)

\* C5 amended: a row that matches nothing is counted in both scripts;
\* fill_population_group_size appends it with its target column as it was
\* (blank when it had none), fill_and_filter_mammals drops it.
C5_UnmatchedRow ==
    [][(RowStep /\ last'.match = <<>>) =>
        IF prog = "fill_population_group_size"
        THEN /\ rows' = Append(rows, DictSet(last'.input, target_column,
                                   DictGet(last'.input, target_column, <<>>)))
             /\ stats'.no_match = stats.no_match + 1
             /\ stats'.matched = stats.matched
        ELSE /\ rows' = rows
             /\ stats'.dropped_no_match = stats.dropped_no_match + 1
             /\ stats'.dropped_too_sparse = stats.dropped_too_sparse]_vars

C5_Witness ==
    /\ prog = "fill_population_group_size"
    /\ last.op = "pop" /\ last.match = <<>>
    /\ index /= <<>>
    /\ "population_grp_size" \in DOMAIN last.input
    /\ rows[Len(rows)]["population_grp_size"] = <<"1","2">>
    /\ stats.no_match = 1

\* C8: a matched row is kept exactly when the legacy row fills at least two
\* of the four mapped columns; otherwise it is dropped and counted as too
\* sparse.
C8_KeptIffTwoFilled ==
    [][(RowStep /\ prog = "fill_and_filter_mammals" /\ last'.match /= <<>>) =>
        IF FilledCount(last'.match[1]) >= 2
        THEN /\ rows' = Append(rows, last'.row)
             /\ stats'.dropped_too_sparse = stats.dropped_too_sparse
             /\ stats'.dropped_no_match = stats.dropped_no_match
        ELSE /\ rows' = rows
             /\ stats'.dropped_too_sparse = stats.dropped_too_sparse + 1
             /\ stats'.dropped_no_match = stats.dropped_no_match]_vars

\* One row kept with exactly two filled columns, then one dropped with
\* exactly one.
C8_Witness ==
    /\ prog = "fill_and_filter_mammals"
    /\ last.op = "fill" /\ last.outcome = "dropped_too_sparse"
    /\ last.match /= <<>> /\ FilledCount(last.match[1]) = 1
    /\ Len(rows) = 1
    /\ FilledCount(find_pantheria_row(index,
           normalize_name(rows[1]["scientific_name"]))[1]) = 2
    /\ stats.total = 2 /\ stats.dropped_too_sparse = 1

\* C9: the match of a row is the index entry of its normalized name when
\* that is a key, else the entry of its binomial reduction when that is a
\* key, else nothing.
C9_ExactThenBinomial ==
    (last.op \in {"fill", "pop"}) =>
        LET n == normalize_name(last.input["scientific_name"])
            b == to_binomial(n)
        IN  /\ n \in DOMAIN index => last.match = <<index[n]>>
            /\ (n \notin DOMAIN index /\ b \in DOMAIN index)
                   => last.match = <<index[b]>>
            /\ (n \notin DOMAIN index /\ b \notin DOMAIN index)
                   => last.match = <<>>

\* Both keys are in the index, with different entries.
C9_Witness ==
    /\ last.op \in {"fill", "pop"}
    /\ LET n == normalize_name(last.input["scientific_name"])
           b == to_binomial(n)
       IN  /\ n /= b
           /\ n \in DOMAIN index /\ b \in DOMAIN index
           /\ index[n] /= index[b]
           /\ last.match = <<index[n]>>

\* C10: every key of the index is a non-empty normalized name and maps to
\* the earliest row read with that name; every non-empty name read is a key.
C10_FirstRowWins ==
    /\ \A k \in DOMAIN index :
          /\ k /= <<>>
          /\ \E i \in 1..Len(pantheria_file) :
                /\ LegacyKey(pantheria_file[i]) = k
                /\ index[k] = pantheria_file[i]
                /\ \A j \in 1..(i - 1) : LegacyKey(pantheria_file[j]) /= k
    /\ \A i \in 1..Len(pantheria_file) :
          LegacyKey(pantheria_file[i]) /= <<>>
              => LegacyKey(pantheria_file[i]) \in DOMAIN index

\* Two different legacy rows have one normalized name, and the index holds
\* the first of them.
C10_Witness ==
    /\ Len(pantheria_file) >= 2
    /\ LegacyKey(pantheria_file[1]) = LegacyKey(pantheria_file[2])
    /\ pantheria_file[1] /= pantheria_file[2]
    /\ index[LegacyKey(pantheria_file[1])] = pantheria_file[1]

(***************************************************************************)
(* More Python str operations, used by the MammalMania scripts.            *)
(***************************************************************************)
startswith(s, prefix) ==
    Len(s) >= Len(prefix) /\ SubSeq(s, 1, Len(prefix)) = prefix

endswith(s, suffix) ==
    Len(s) >= Len(suffix) /\ SubSeq(s, Len(s) - Len(suffix) + 1, Len(s)) = suffix

\* sub in s
contains(s, sub) ==
    \E i \in 1..(Len(s) - Len(sub) + 1) : SubSeq(s, i, i + Len(sub) - 1) = sub

\* s.replace(a, b) for single characters a and b
str_replace_char(s, a, b) == [i \in 1..Len(s) |-> IF s[i] = a THEN b ELSE s[i]]

\* The concatenation of the sequences of seqs
RECURSIVE Flatten(_)
Flatten(seqs) ==
    IF seqs = <<>> THEN <<>>
    ELSE IF Len(seqs) = 1 THEN seqs[1]
    ELSE Flatten(SubSeq(seqs, 1, Len(seqs) \div 2))
         \o Flatten(SubSeq(seqs, Len(seqs) \div 2 + 1, Len(seqs)))

IsAlnumLower(c) == IsDigit(c) \/ \E i \in 1..26 : LowerChars[i] = c

\* The maximal runs of text made of characters that Keep accepts, in order
Indices(text) == [i \in 1..Len(text) |-> i]

runs_between(text, starts, ends) ==
    [k \in 1..Len(starts) |-> SubSeq(text, starts[k], ends[k])]

Runs(text, Keep(_)) ==
    runs_between(text,
        SelectSeq(Indices(text),
                  LAMBDA i : Keep(text[i]) /\ (i = 1 \/ ~Keep(text[i - 1]))),
        SelectSeq(Indices(text),
                  LAMBDA i : Keep(text[i]) /\ (i = Len(text) \/ ~Keep(text[i + 1]))))

\* re.findall(r"[a-z0-9]+", text): the maximal runs of [a-z0-9], in order.
\* The non-empty pieces of re.split(r"[^a-z0-9]+", text) are the same runs.
alnum_runs(text) == Runs(text, IsAlnumLower)

\* The percent escapes of the characters that the titles, file names and
\* URLs of the model contain.
PercentEscapes ==
    << << <<"%","2","0">>, " " >>, << <<"%","2","D">>, "-" >>, << <<"%","5","F">>, "_" >>, << <<"%","3","A">>, ":" >>,
       << <<"%","2","5">>, "%" >>, << <<"%","2","7">>, "'" >>, << <<"%","2","8">>, "(" >>, << <<"%","2","9">>, ")" >> >>

EscapeAt(s, i) ==
    {e \in 1..Len(PercentEscapes) :
        i + 2 <= Len(s) /\ SubSeq(s, i, i + 2) = PercentEscapes[e][1]}

\* urllib.parse.unquote: each escape becomes its character
unquote(s) ==
    Flatten([i \in 1..Len(s) |->
        IF EscapeAt(s, i) /= {}
        THEN <<PercentEscapes[CHOOSE e \in EscapeAt(s, i) : TRUE][2]>>
        ELSE IF (i > 1 /\ EscapeAt(s, i - 1) /= {}) \/ (i > 2 /\ EscapeAt(s, i - 2) /= {})
        THEN <<>>
        ELSE <<s[i]>>])

\* urllib.parse.quote(s, safe): letters, digits, "_.-~" and the characters
\* of safe are kept, every other character becomes its escape.
IsUnreserved(c) ==
    \/ IsAlnumLower(c)
    \/ \E i \in 1..26 : UpperChars[i] = c
    \/ c \in {"_", ".", "-", "~"}

quote_char(c, safe) ==
    IF IsUnreserved(c) \/ c \in safe THEN <<c>>
    ELSE PercentEscapes[CHOOSE e \in 1..Len(PercentEscapes) : PercentEscapes[e][2] = c][1]

quote(s, safe) == Flatten([i \in 1..Len(s) |-> quote_char(s[i], safe)])

\* A value that Python takes for true: neither None nor ""
Truthy(s) == s /= None /\ s /= <<>>

(***************************************************************************)
(* decimal.Decimal, as build_mammals_csv.py uses it.                       *)
(*                                                                         *)
(* A natural number of any size is the sequence of its decimal digits,     *)
(* most significant first, without leading zeros (<<0>> is zero).  A       *)
(* Decimal is [neg, coef, exp]: the number (-1)^neg * coef * 10^exp, kept  *)
(* with no trailing zero in coef, so that two Decimals are equal as        *)
(* records exactly when Python's == holds of them.                         *)
(***************************************************************************)
Front(a) == SubSeq(a, 1, Len(a) - 1)

Last(a) == a[Len(a)]

Zeros(n) == [i \in 1..n |-> 0]

\* a without its leading zeros
BigStrip(a) ==
    IF \A i \in 1..Len(a) : a[i] = 0 THEN <<0>>
    ELSE SubSeq(a, CHOOSE i \in 1..Len(a) :
                       a[i] /= 0 /\ \A j \in 1..(i - 1) : a[j] = 0, Len(a))

\* The digits of an ordinary natural number.
RECURSIVE NatDigits(_)
NatDigits(n) == IF n < 10 THEN <<n>> ELSE NatDigits(n \div 10) \o <<n % 10>>

\* -1, 0 or 1 as a < b, a = b or a > b; a and b have no leading zeros.
first_difference(a, b, i) == IF a[i] < b[i] THEN -1 ELSE 1

BigCmp(a, b) ==
    IF Len(a) < Len(b) THEN -1
    ELSE IF Len(a) > Len(b) THEN 1
    ELSE IF a = b THEN 0
    ELSE first_difference(a, b,
             CHOOSE i \in 1..Len(a) : a[i] /= b[i] /\ \A j \in 1..(i - 1) : a[j] = b[j])

\* The arithmetic is done on groups of four digits (limbs), as a number
\* in base 10000.
limbs_of(p) ==
    [i \in 1..(Len(p) \div 4) |->
        1000 * p[4 * i - 3] + 100 * p[4 * i - 2] + 10 * p[4 * i - 1] + p[4 * i]]

ToLimbs(a) == limbs_of(Zeros((4 - (Len(a) % 4)) % 4) \o a)

FromLimbs(l) ==
    BigStrip([j \in 1..(4 * Len(l)) |->
                 (l[(j + 3) \div 4] \div Pow10(3 - ((j - 1) % 4))) % 10])

\* l * k + carry for limbs l and naturals k, carry < 10000
RECURSIVE LimbMulSmall(_, _, _)
LimbMulSmall(l, k, carry) ==
    IF l = <<>> THEN (IF carry = 0 THEN <<>> ELSE <<carry>>)
    ELSE LimbMulSmall(Front(l), k, (Last(l) * k + carry) \div 10000)
         \o <<(Last(l) * k + carry) % 10000>>

\* a * k for a natural k < 10000
BigMulSmall(a, k) == FromLimbs(LimbMulSmall(ToLimbs(a), k, 0))

\* a + b + carry for limbs a and b of one length
RECURSIVE LimbAddSameLen(_, _, _)
LimbAddSameLen(a, b, carry) ==
    IF a = <<>> THEN (IF carry = 0 THEN <<>> ELSE <<carry>>)
    ELSE LimbAddSameLen(Front(a), Front(b), (Last(a) + Last(b) + carry) \div 10000)
         \o <<(Last(a) + Last(b) + carry) % 10000>>

LimbAdd(a, b) ==
    IF Len(a) >= Len(b)
    THEN LimbAddSameLen(a, Zeros(Len(a) - Len(b)) \o b, 0)
    ELSE LimbAddSameLen(Zeros(Len(b) - Len(a)) \o a, b, 0)

BigAdd(a, b) == FromLimbs(LimbAdd(ToLimbs(a), ToLimbs(b)))

\* a * b, one limb of b at a time
RECURSIVE LimbMul(_, _)
LimbMul(a, b) ==
    IF b = <<>> THEN <<>>
    ELSE LimbAdd(LimbMul(a, Front(b)) \o <<0>>, LimbMulSmall(a, Last(b), 0))

BigMul(a, b) == FromLimbs(LimbMul(ToLimbs(a), ToLimbs(b)))

\* Long division of the limbs l by a natural k, 0 < k < 200000, from the
\* left: acc is [q, r], the limbs of the quotient so far and the remainder.
RECURSIVE LimbDivSmall(_, _, _)
LimbDivSmall(l, k, acc) ==
    IF l = <<>> THEN acc
    ELSE LimbDivSmall(Tail(l), k,
             [q |-> Append(acc.q, (acc.r * 10000 + Head(l)) \div k),
              r |-> (acc.r * 10000 + Head(l)) % k])

digits_of_quotient(qr) == [q |-> FromLimbs(qr.q), r |-> qr.r]

BigDivSmall(a, k) ==
    digits_of_quotient(LimbDivSmall(ToLimbs(a), k, [q |-> <<>>, r |-> 0]))

\* The value of a digit sequence that is known to be small.
RECURSIVE BigToNat(_)
BigToNat(a) == IF a = <<>> THEN 0 ELSE 10 * BigToNat(Front(a)) + Last(a)

\* The number of zeros that end a.
TrailingZeros(a) ==
    IF \A i \in 1..Len(a) : a[i] = 0 THEN Len(a)
    ELSE Len(a) - (CHOOSE i \in 1..Len(a) :
                       a[i] /= 0 /\ \A j \in (i + 1)..Len(a) : a[j] = 0)

\* The context precision of decimal: getcontext().prec
DecimalPrec == 28

drop_zeros(neg, coef, exp, z) ==
    [neg |-> neg, coef |-> SubSeq(coef, 1, Len(coef) - z), exp |-> exp + z]

\* The Decimal of the value coef * 10^exp, with its sign
Dec(neg, coef, exp) ==
    IF BigStrip(coef) = <<0>> THEN [neg |-> FALSE, coef |-> <<0>>, exp |-> 0]
    ELSE drop_zeros(neg, BigStrip(coef), exp, TrailingZeros(BigStrip(coef)))

\* The digits dropped by a rounding are `dropped`, followed by something
\* that is not zero when sticky: is the result rounded up (ROUND_HALF_EVEN)?
RoundsUp(kept, dropped, sticky) ==
    IF dropped = <<>> THEN FALSE
    ELSE IF Head(dropped) > 5 THEN TRUE
    ELSE IF Head(dropped) < 5 THEN FALSE
    ELSE IF sticky \/ BigStrip(Tail(dropped)) /= <<0>> THEN TRUE
    ELSE Last(kept) % 2 = 1

round_kept(neg, kept, dropped, sticky, exp) ==
    Dec(neg,
        IF RoundsUp(kept, dropped, sticky) THEN BigAdd(kept, <<1>>) ELSE kept,
        exp + Len(dropped))

\* coef * 10^exp rounded to DecimalPrec significant digits; sticky says that
\* the exact value is a little more than coef * 10^exp.
DecRound(neg, coef, exp, sticky) ==
    IF Len(coef) <= DecimalPrec THEN Dec(neg, coef, exp)
    ELSE round_kept(neg, SubSeq(coef, 1, DecimalPrec),
                    SubSeq(coef, DecimalPrec + 1, Len(coef)), sticky, exp)

\* a * b
DecMul(a, b) ==
    DecRound(a.neg /= b.neg, BigMul(a.coef, b.coef), a.exp + b.exp, FALSE)

\* a / b for a divisor b whose coefficient is a small number: the dividend
\* gets z more digits, enough for a quotient of more than DecimalPrec digits.
div_extended(a, b, z, qr) ==
    DecRound(a.neg /= b.neg, qr.q, a.exp - z - b.exp, qr.r /= 0)

div_by_small(a, b, z) ==
    div_extended(a, b, z, BigDivSmall(a.coef \o Zeros(z), BigToNat(b.coef)))

DecDiv(a, b) == div_by_small(a, b, DecimalPrec + 1 + Len(b.coef))

\* a < b for non-negative values given by coefficient and exponent
MagLess(ac, ae, bc, be) ==
    IF ae >= be
    THEN BigCmp(BigStrip(ac \o Zeros(ae - be)), bc) < 0
    ELSE BigCmp(ac, BigStrip(bc \o Zeros(be - ae))) < 0

\* a < b
DecLess(a, b) ==
    IF a.neg /= b.neg THEN a.neg
    ELSE IF a.neg THEN MagLess(b.coef, b.exp, a.coef, a.exp)
    ELSE MagLess(a.coef, a.exp, b.coef, b.exp)

\* decimal_max returning the smallest of the values
decimal_min(values) ==
    CHOOSE v \in {values[i] : i \in 1..Len(values)} :
        \A i \in 1..Len(values) : ~DecLess(values[i], v)

\* max(values) of a non-empty list: the first of the largest
RECURSIVE max_from(_, _, _)
max_from(values, i, best) ==
    IF i > Len(values) THEN best
    ELSE max_from(values, i + 1, IF DecLess(best, values[i]) THEN values[i] ELSE best)

decimal_max(values) == max_from(values, 2, values[1])

\* The digits of a digit string
DigitSeq(s) == [i \in 1..Len(s) |-> DigitValue(s[i])]

\* Decimal(s) of [sign] digits [. digits]; <<>> where it raises
\* InvalidOperation.  The amounts of the model are written in this form.
decimal_digits(neg, ip, fp) ==
    IF IsDigits(ip) /\ IsDigits(fp) /\ Len(ip) + Len(fp) > 0
    THEN <<Dec(neg, DigitSeq(ip \o fp), 0 - Len(fp))>>
    ELSE <<>>

decimal_unsigned(neg, body, dots) ==
    IF Cardinality(dots) > 1 THEN <<>>
    ELSE IF dots = {} THEN decimal_digits(neg, body, <<>>)
    ELSE decimal_digits(neg, SubSeq(body, 1, (CHOOSE i \in dots : TRUE) - 1),
                        SubSeq(body, (CHOOSE i \in dots : TRUE) + 1, Len(body)))

decimal_body(neg, body) ==
    decimal_unsigned(neg, body, {i \in 1..Len(body) : body[i] = "."})

Decimal(s) ==
    IF s /= <<>> /\ s[1] \in {"-", "+"}
    THEN decimal_body(s[1] = "-", Tail(s))
    ELSE decimal_body(FALSE, s)

drop_plus(s) == IF startswith(s, <<"+">>) THEN Tail(s) ELSE s

\* as_decimal(amount_str): <<value>>, or <<>> where it raises
as_decimal(amount_str) == Decimal(drop_plus(str_strip(amount_str)))

(***************************************************************************)
(* float(d) of a Decimal d: the IEEE 754 double nearest to d, a tie going  *)
(* to the even significand.  A double other than zero is [neg, m, e], the  *)
(* number (-1)^neg * m * 2^e with 2^52 <= m < 2^53 (m a digit sequence);   *)
(* zero is [neg |-> FALSE, m |-> <<0>>, e |-> 0].  The values of the model *)
(* are far from the subnormal and the infinite doubles.                    *)
(***************************************************************************)
TwoTo52 == <<4,5,0,3,5,9,9,6,2,7,3,7,0,4,9,6>>

TwoTo53 == <<9,0,0,7,1,9,9,2,5,4,7,4,0,9,9,2>>

\* m * 2^e, where m may have reached 2^53 by rounding up
double_of(neg, m, e) ==
    IF m = TwoTo53 THEN [neg |-> neg, m |-> TwoTo52, e |-> e + 1]
    ELSE [neg |-> neg, m |-> m, e |-> e]

\* p / 10^k * 2^e with 2^52 <= p / 10^k < 2^53: q is the integer part of
\* p / 10^k and r the k digits after it.
round_fraction(neg, q, r, k, e) ==
    double_of(neg,
        IF \/ BigCmp(BigMulSmall(r, 2), <<1>> \o Zeros(k)) > 0
           \/ (BigCmp(BigMulSmall(r, 2), <<1>> \o Zeros(k)) = 0 /\ Last(q) % 2 = 1)
        THEN BigAdd(q, <<1>>) ELSE q,
        e)

\* The integer part of p / 10^k, and the k digits after it
IntPart(p, k) == IF Len(p) > k THEN SubSeq(p, 1, Len(p) - k) ELSE <<0>>

FracPart(p, k) ==
    IF Len(p) > k THEN SubSeq(p, Len(p) - k + 1, Len(p))
    ELSE Zeros(k - Len(p)) \o p

TwoTo43 == <<8,7,9,6,0,9,3,0,2,2,2,0,8>>

\* p / 10^k < 2^53: multiply p by 2 (by 2^10 while that is safe) until
\* p / 10^k >= 2^52, then round.
RECURSIVE scale_up(_, _, _, _)
scale_up(neg, p, k, e) ==
    IF BigCmp(IntPart(p, k), TwoTo43) < 0
    THEN scale_up(neg, BigMulSmall(p, 1024), k, e - 10)
    ELSE IF BigCmp(IntPart(p, k), TwoTo52) < 0
    THEN scale_up(neg, BigMulSmall(p, 2), k, e - 1)
    ELSE round_fraction(neg, IntPart(p, k), FracPart(p, k), k, e)

\* q >= 2^53 with a guard bit g and a sticky bit s below it: halve q
\* until it is below 2^53, then round.
RECURSIVE scale_down(_, _, _, _, _)
halved(neg, qr, g, s, e) == scale_down(neg, qr.q, qr.r = 1, s \/ g, e + 1)

scale_down(neg, q, g, s, e) ==
    IF BigCmp(q, TwoTo53) >= 0
    THEN halved(neg, BigDivSmall(q, 2), g, s, e)
    ELSE double_of(neg,
             IF g /\ (s \/ Last(q) % 2 = 1) THEN BigAdd(q, <<1>>) ELSE q, e)

\* float(d) for d = coef * 10^exp other than zero
float_nonzero(neg, p, k) ==
    IF BigCmp(IntPart(p, k), TwoTo53) >= 0
    THEN scale_down(neg, IntPart(p, k), FALSE, BigStrip(FracPart(p, k)) /= <<0>>, 0)
    ELSE scale_up(neg, p, k, 0)

float(d) ==
    IF d.coef = <<0>> THEN [neg |-> FALSE, m |-> <<0>>, e |-> 0]
    ELSE IF d.exp >= 0 THEN float_nonzero(d.neg, d.coef \o Zeros(d.exp), 0)
    ELSE float_nonzero(d.neg, d.coef, 0 - d.exp)

(***************************************************************************)
(* build_mammals_csv.py: the claims of an entity and its traits.           *)
(*                                                                         *)
(* An entity is a function from property ids to lists of statements.  A    *)
(* statement is a record that may have a "rank" and may have a "value",    *)
(* its mainsnak.datavalue.value: [type |-> "quantity", amount, unit], the  *)
(* same without its amount, [type |-> "item", id] or [type |-> "string",   *)
(* text].                                                                  *)
(***************************************************************************)
P_MASS == <<"P","2","0","6","7">>
P_LIFESPAN == <<"P","2","2","5","0">>
P_GESTATION == <<"P","3","0","6","3">>
P_LITTER == <<"P","7","7","2","5">>
P_SPEED == <<"P","2","0","5","2">>
P_CONSERVATION_STATUS == <<"P","1","4","1">>
P_TAXON_NAME == <<"P","2","2","5">>

Q_KG == <<"Q","1","1","5","7","0">>
Q_G == <<"Q","4","1","8","0","3">>
Q_MG == <<"Q","3","2","4","1","1","2","1">>
Q_TONNE == <<"Q","1","9","1","1","1","8">>
Q_LB == <<"Q","1","0","0","9","9","5">>
Q_DAY == <<"Q","5","7","3">>
Q_WEEK == <<"Q","2","3","3","8","7">>
Q_MONTH == <<"Q","5","1","5","1">>
Q_YEAR == <<"Q","5","7","7">>
Q_MPH == <<"Q","2","1","1","2","5","6">>
Q_KMH == <<"Q","1","8","0","1","5","4">>
Q_MPS == <<"Q","1","8","2","4","2","9">>
Q_KNOT == <<"Q","1","2","8","8","2","2">>

\* Decimal("...") of a literal of the source
Literal(s) == Decimal(s)[1]

LB_TO_KG == Literal(<<"0",".","4","5","3","5","9","2","3","7">>)
KMH_TO_MPH == Literal(<<"0",".","6","2","1","3","7","1","1","9","2","2","3","7","3","3","4">>)
MPS_TO_MPH == Literal(<<"2",".","2","3","6","9","3","6","2","9","2","0","5","4","4">>)
KNOT_TO_MPH == Literal(<<"1",".","1","5","0","7","7","9","4","4","8","0","2","3","5","4">>)

\* unit_uri.rsplit("/", 1)[-1]
RECURSIVE after_last_slash(_)
after_last_slash(s) ==
    IF \E i \in 1..Len(s) : s[i] = "/"
    THEN after_last_slash(SubSeq(s, (CHOOSE i \in 1..Len(s) : s[i] = "/") + 1, Len(s)))
    ELSE s

unit_qid_from_uri(unit_uri) ==
    IF unit_uri = <<>> \/ unit_uri = <<"1">> THEN None
    ELSE after_last_slash(unit_uri)

\* [s for s in statements if s.get("rank") == rank]
with_rank(statements, rank) ==
    SelectSeq(statements, LAMBDA s : DictGet(s, "rank", "None") = rank)

\* pick_best_statements returning every statement when none is preferred
\* or normal
pick_best_statements_keeps_deprecated(statements) ==
    IF with_rank(statements, "preferred") /= <<>>
    THEN with_rank(statements, "preferred")
    ELSE IF with_rank(statements, "normal") /= <<>>
    THEN with_rank(statements, "normal")
    ELSE statements

pick_best_statements(statements) ==
    IF with_rank(statements, "preferred") /= <<>>
    THEN with_rank(statements, "preferred")
    ELSE IF with_rank(statements, "normal") /= <<>>
    THEN with_rank(statements, "normal")
    ELSE SelectSeq(statements, LAMBDA s : DictGet(s, "rank", "None") /= "deprecated")

\* st.get("mainsnak", {}).get("datavalue", {}).get("value")
datavalue(st) == DictGet(st, "value", [type |-> "None"])

\* The body of the loop of extract_quantity_claims for one statement: the
\* list of what it appends.
quantity_pair(dv, val) ==
    IF val = <<>> THEN <<>>
    ELSE << [value |-> val[1], unit |-> unit_qid_from_uri(DictGet(dv, "unit", <<>>))] >>

quantity_of_value(dv) ==
    IF dv.type /= "quantity" \/ "amount" \notin DOMAIN dv THEN <<>>
    ELSE quantity_pair(dv, as_decimal(dv.amount))

\* A loop over the statements that ends at the first statement without a
\* numeric quantity
RECURSIVE quantity_claims_until_failure(_)
quantity_claims_until_failure(statements) ==
    IF statements = <<>> THEN <<>>
    ELSE IF quantity_of_value(datavalue(Head(statements))) = <<>> THEN <<>>
    ELSE quantity_of_value(datavalue(Head(statements)))
         \o quantity_claims_until_failure(Tail(statements))

RECURSIVE quantity_claims_of(_)
quantity_claims_of(statements) ==
    IF statements = <<>> THEN <<>>
    ELSE quantity_of_value(datavalue(Head(statements)))
         \o quantity_claims_of(Tail(statements))

extract_quantity_claims(entity, prop) ==
    quantity_claims_of(pick_best_statements(DictGet(entity, prop, <<>>)))

\* A conversion of mass that takes a value of any other unit for kilograms
convert_mass_to_kg_assumes_kg(value, unit_qid) ==
    IF unit_qid = Q_G THEN <<DecDiv(value, Literal(<<"1","0","0","0">>))>>
    ELSE IF unit_qid = Q_MG THEN <<DecDiv(value, Literal(<<"1","0","0","0","0","0","0">>))>>
    ELSE IF unit_qid = Q_TONNE THEN <<DecMul(value, Literal(<<"1","0","0","0">>))>>
    ELSE IF unit_qid = Q_LB THEN <<DecMul(value, LB_TO_KG)>>
    ELSE <<value>>

\* The converters: <<value>>, or <<>> for None
convert_mass_to_kg(value, unit_qid) ==
    IF unit_qid = Q_KG THEN <<value>>
    ELSE IF unit_qid = Q_G THEN <<DecDiv(value, Literal(<<"1","0","0","0">>))>>
    ELSE IF unit_qid = Q_MG THEN <<DecDiv(value, Literal(<<"1","0","0","0","0","0","0">>))>>
    ELSE IF unit_qid = Q_TONNE THEN <<DecMul(value, Literal(<<"1","0","0","0">>))>>
    ELSE IF unit_qid = Q_LB THEN <<DecMul(value, LB_TO_KG)>>
    ELSE <<>>

\* A conversion of time that counts a month as 30 days
convert_time_to_days_month_of_30(value, unit_qid) ==
    IF unit_qid = Q_DAY THEN <<value>>
    ELSE IF unit_qid = Q_WEEK THEN <<DecMul(value, Literal(<<"7">>))>>
    ELSE IF unit_qid = Q_MONTH THEN <<DecMul(value, Literal(<<"3","0">>))>>
    ELSE IF unit_qid = Q_YEAR THEN <<DecMul(value, Literal(<<"3","6","5",".","2","5">>))>>
    ELSE <<>>

convert_time_to_days(value, unit_qid) ==
    IF unit_qid = Q_DAY THEN <<value>>
    ELSE IF unit_qid = Q_WEEK THEN <<DecMul(value, Literal(<<"7">>))>>
    ELSE IF unit_qid = Q_MONTH THEN <<DecMul(value, Literal(<<"3","0",".","4","3","7","5">>))>>
    ELSE IF unit_qid = Q_YEAR THEN <<DecMul(value, Literal(<<"3","6","5",".","2","5">>))>>
    ELSE <<>>

days_to_years(days) ==
    IF days = <<>> THEN <<>> ELSE <<DecDiv(days[1], Literal(<<"3","6","5",".","2","5">>))>>

convert_time_to_years(value, unit_qid) ==
    IF unit_qid = Q_YEAR THEN <<value>>
    ELSE days_to_years(convert_time_to_days(value, unit_qid))

convert_speed_to_mph(value, unit_qid) ==
    IF unit_qid = Q_MPH THEN <<value>>
    ELSE IF unit_qid = Q_KMH THEN <<DecMul(value, KMH_TO_MPH)>>
    ELSE IF unit_qid = Q_MPS THEN <<DecMul(value, MPS_TO_MPH)>>
    ELSE IF unit_qid = Q_KNOT THEN <<DecMul(value, KNOT_TO_MPH)>>
    ELSE <<>>

\* The loop "for v, u in ...: c = convert(v, u); if c is not None:
\* conv.append(c)" of the four best_* functions
converted(pairs, convert(_, _)) ==
    Flatten([i \in 1..Len(pairs) |-> convert(pairs[i].value, pairs[i].unit)])

\* "float(max(conv)) if conv else None": <<double>>, or <<>> for None
best_of(conv) == IF conv /= <<>> THEN <<float(decimal_max(conv))>> ELSE <<>>

best_mass_kg(entity) ==
    best_of(converted(extract_quantity_claims(entity, P_MASS), convert_mass_to_kg))

best_lifespan_yr(entity) ==
    best_of(converted(extract_quantity_claims(entity, P_LIFESPAN), convert_time_to_years))

best_gestation_days(entity) ==
    best_of(converted(extract_quantity_claims(entity, P_GESTATION), convert_time_to_days))

best_speed_mph(entity) ==
    best_of(converted(extract_quantity_claims(entity, P_SPEED), convert_speed_to_mph))

\* A selection that keeps the claims with a unit as well
unitless_keeps_all(pairs) == pairs

\* The loop of best_litter_size: the unitless values, "1" or no unit
unitless(pairs) == SelectSeq(pairs, LAMBDA p : p.unit = None)

RECURSIVE values_of(_)
values_of(pairs) ==
    IF pairs = <<>> THEN <<>> ELSE <<Head(pairs).value>> \o values_of(Tail(pairs))

best_litter_size(entity) ==
    best_of(values_of(unitless(extract_quantity_claims(entity, P_LITTER))))

(***************************************************************************)
(* The trait functions applied to the claims of one property.  The         *)
(* argument is an entity with claims for one property: a list of at most   *)
(* MaxStatements statements, whose ranks are any and whose values are the  *)
(* first values of one of the lists below.                                 *)
(***************************************************************************)
MaxStatements == 3

UnitUri(qid) == <<"h","t","t","p",":","/","/","w","w","w",".","w","i","k","i","d","a","t","a",".","o","r","g","/","e","n","t","i","t","y","/">> \o qid

Quantity(amount, unit_uri) ==
    [type |-> "quantity", amount |-> amount, unit |-> unit_uri]

NoValue == [type |-> "None"]

ValueLists ==
    [mass |->
        { << Quantity(<<"+","5">>, UnitUri(Q_KG)), Quantity(<<"+","1","1","0","0","0">>, UnitUri(Q_G)),
             Quantity(<<"+","2">>, UnitUri(Q_LB)), Quantity(<<"+","3","0">>, UnitUri(Q_DAY)) >>,
          << Quantity(<<"a","b","c">>, UnitUri(Q_KG)), Quantity(<<"+","0",".","5">>, UnitUri(Q_TONNE)),
             Quantity(<<"+","7","0","0">>, <<"1">>), Quantity(<<"+","1","2","0","0">>, UnitUri(Q_MG)) >>,
          << [type |-> "quantity", unit |-> UnitUri(Q_KG)], Quantity(<<" ","+","1","1","0","0","0"," ">>, UnitUri(Q_G)),
             Quantity(<<"+","1","1">>, UnitUri(Q_KG)), [type |-> "string", text |-> <<"1","2"," ","k","g">>] >> },
     lifespan |->
        { << Quantity(<<"+","2","0">>, UnitUri(Q_YEAR)), Quantity(<<"+","3","0","0">>, UnitUri(Q_MONTH)),
             Quantity(<<"+","5","2">>, UnitUri(Q_WEEK)), Quantity(<<"+","9","0","0","0">>, UnitUri(Q_DAY)) >>,
          << Quantity(<<"+","5","0">>, UnitUri(Q_KG)), Quantity(<<"+","1","2">>, UnitUri(Q_MONTH)),
             Quantity(<<"+","1">>, UnitUri(Q_YEAR)), NoValue >> },
     gestation |->
        { << Quantity(<<"+","1","1","0">>, UnitUri(Q_DAY)), Quantity(<<"+","1","6">>, UnitUri(Q_WEEK)),
             Quantity(<<"+","3",".","5">>, UnitUri(Q_MONTH)), Quantity(<<"+","1">>, UnitUri(Q_YEAR)) >>,
          << Quantity(<<"+","9","3","0">>, <<"1">>), Quantity(<<"+","1","5">>, UnitUri(Q_WEEK)),
             Quantity(<<"+","1","0","5">>, UnitUri(Q_DAY)), Quantity(<<"1",".",".","5">>, UnitUri(Q_YEAR)) >> },
     speed |->
        { << Quantity(<<"+","8","0">>, UnitUri(Q_KMH)), Quantity(<<"+","5","0">>, UnitUri(Q_MPH)),
             Quantity(<<"+","2","2">>, UnitUri(Q_MPS)), Quantity(<<"+","4","3">>, UnitUri(Q_KNOT)) >>,
          << Quantity(<<"+","8","0">>, UnitUri(Q_KG)), Quantity(<<"+","1">>, UnitUri(Q_KNOT)),
             Quantity(<<"+","1",".","1","5","0","7","7","9","4","4","8","0","2","3","5","4">>, UnitUri(Q_MPH)), Quantity(<<>>, UnitUri(Q_MPH)) >> },
     litter |->
        { << Quantity(<<"+","4">>, <<"1">>), Quantity(<<"+","9">>, UnitUri(Q_KG)),
             Quantity(<<"+","2">>, <<>>), Quantity(<<"+","6">>, <<"1">>) >>,
          << Quantity(<<"+","3">>, UnitUri(Q_DAY)), Quantity(<<"+","1","2">>, UnitUri(Q_KG)),
             Quantity(<<"s","i","x">>, <<"1">>), [type |-> "quantity", amount |-> <<"+","1">>] >> }]

PropertyOf ==
    [mass |-> P_MASS, lifespan |-> P_LIFESPAN, gestation |-> P_GESTATION,
     speed |-> P_SPEED, litter |-> P_LITTER]

RankSamples == {"preferred", "normal", "deprecated", "absent"}

\* A statement with the given rank ("absent": no rank key) and value
\* (NoValue: no value)
Statement(rank, value) ==
    [k \in (IF rank = "absent" THEN {} ELSE {"rank"})
           \cup (IF value = NoValue THEN {} ELSE {"value"})
        |-> IF k = "rank" THEN rank ELSE value]

Statements(ranks, values) ==
    [i \in 1..Len(ranks) |-> Statement(ranks[i], values[i])]

RankLists == UNION {[1..n -> RankSamples] : n \in 0..MaxStatements}

TraitInputs ==
    UNION { { [trait |-> t, statements |-> Statements(ranks, values)] :
                ranks \in RankLists, values \in ValueLists[t] } :
            t \in DOMAIN ValueLists }

\* The entity of an input
EntityOf(input) == PropertyOf[input.trait] :> input.statements

InitTraits ==
    /\ prog = "traits"
    /\ pc = "call"
    /\ args \in TraitInputs
    /\ rows = <<>>
    /\ stats = <<>>
    /\ last = [op |-> "none"]
    /\ pantheria_file = <<>>
    /\ index = <<>>
    /\ label_cache = <<>>
    /\ page_cache = <<>>
    /\ file_url_cache = <<>>
    /\ requests = <<>>

PickBestStatements ==
    /\ prog = "traits" /\ pc = "call"
    /\ pc' = "done"
    /\ last' = [op |-> "pick_best_statements",
                result |-> pick_best_statements(args.statements)]
    /\ UNCHANGED <<prog, args, rows, stats, legacy_vars, media_vars>>

ExtractQuantityClaims ==
    /\ prog = "traits" /\ pc = "call"
    /\ pc' = "done"
    /\ last' = [op |-> "extract_quantity_claims",
                result |-> extract_quantity_claims(EntityOf(args), PropertyOf[args.trait])]
    /\ UNCHANGED <<prog, args, rows, stats, legacy_vars, media_vars>>

BestMassKg ==
    /\ prog = "traits" /\ pc = "call"
    /\ pc' = "done"
    /\ last' = [op |-> "best_mass_kg",
                result |-> best_mass_kg(EntityOf(args))]
    /\ UNCHANGED <<prog, args, rows, stats, legacy_vars, media_vars>>

BestLifespanYr ==
    /\ prog = "traits" /\ pc = "call"
    /\ pc' = "done"
    /\ last' = [op |-> "best_lifespan_yr",
                result |-> best_lifespan_yr(EntityOf(args))]
    /\ UNCHANGED <<prog, args, rows, stats, legacy_vars, media_vars>>

BestGestationDays ==
    /\ prog = "traits" /\ pc = "call"
    /\ pc' = "done"
    /\ last' = [op |-> "best_gestation_days",
                result |-> best_gestation_days(EntityOf(args))]
    /\ UNCHANGED <<prog, args, rows, stats, legacy_vars, media_vars>>

BestSpeedMph ==
    /\ prog = "traits" /\ pc = "call"
    /\ pc' = "done"
    /\ last' = [op |-> "best_speed_mph",
                result |-> best_speed_mph(EntityOf(args))]
    /\ UNCHANGED <<prog, args, rows, stats, legacy_vars, media_vars>>

BestLitterSize ==
    /\ prog = "traits" /\ pc = "call"
    /\ pc' = "done"
    /\ last' = [op |-> "best_litter_size",
                result |-> best_litter_size(EntityOf(args))]
    /\ UNCHANGED <<prog, args, rows, stats, legacy_vars, media_vars>>

NextTraits ==
    \/ PickBestStatements
    \/ ExtractQuantityClaims
    \/ BestMassKg
    \/ BestLifespanYr
    \/ BestGestationDays
    \/ BestSpeedMph
    \/ BestLitterSize

SpecTraits == InitTraits /\ [][NextTraits]_vars

(***************************************************************************)
(* Claims about the trait functions, checked under SpecTraits.             *)
(***************************************************************************)
RankOf(st) == IF "rank" \in DOMAIN st THEN st.rank ELSE "absent"

\* The statements of sts at the positions of I, in their order
RECURSIVE AtPositions(_, _, _)
AtPositions(sts, I, i) ==
    IF i > Len(sts) THEN <<>>
    ELSE (IF i \in I THEN <<sts[i]>> ELSE <<>>) \o AtPositions(sts, I, i + 1)

Positions(sts, ranks) == {i \in 1..Len(sts) : RankOf(sts[i]) \in ranks}

\* C6: pick_best_statements returns exactly the preferred statements when
\* there is one, else exactly the normal ones when there is one, else the
\* statements that are not deprecated; it never returns a deprecated one.
C6_RankPreference ==
    last.op = "pick_best_statements" =>
        LET sts == args.statements
        IN  /\ last.result =
                 IF Positions(sts, {"preferred"}) /= {}
                 THEN AtPositions(sts, Positions(sts, {"preferred"}), 1)
                 ELSE IF Positions(sts, {"normal"}) /= {}
                 THEN AtPositions(sts, Positions(sts, {"normal"}), 1)
                 ELSE AtPositions(sts, {i \in 1..Len(sts) : RankOf(sts[i]) /= "deprecated"}, 1)
            /\ \A i \in 1..Len(last.result) : RankOf(last.result[i]) /= "deprecated"
            /\ [i \in 1..Len(sts) |-> RankOf(sts[i])] = <<"deprecated">>
                   => last.result = <<>>
            /\ {RankOf(sts[i]) : i \in 1..Len(sts)} = {"normal", "deprecated"}
                   => last.result = AtPositions(sts, Positions(sts, {"normal"}), 1)

\* {normal, preferred, deprecated} has yielded only the preferred statement.
C6_Witness ==
    /\ last.op = "pick_best_statements"
    /\ [i \in 1..Len(args.statements) |-> RankOf(args.statements[i])]
           = <<"normal", "preferred", "deprecated">>
    /\ last.result = <<args.statements[2]>>

\* The canonical values of the authoritative statements of the input that
\* convert, for the trait function op.
ConvertOf(op, value, unit) ==
    IF op = "best_mass_kg" THEN convert_mass_to_kg(value, unit)
    ELSE IF op = "best_lifespan_yr" THEN convert_time_to_years(value, unit)
    ELSE IF op = "best_gestation_days" THEN convert_time_to_days(value, unit)
    ELSE convert_speed_to_mph(value, unit)

PropOf(op) ==
    IF op = "best_mass_kg" THEN P_MASS
    ELSE IF op = "best_lifespan_yr" THEN P_LIFESPAN
    ELSE IF op = "best_gestation_days" THEN P_GESTATION
    ELSE P_SPEED

Canonical(op, entity) ==
    LET sts == pick_best_statements(DictGet(entity, PropOf(op), <<>>))
        ok(i) == /\ "value" \in DOMAIN sts[i]
                 /\ sts[i].value.type = "quantity"
                 /\ "amount" \in DOMAIN sts[i].value
                 /\ as_decimal(sts[i].value.amount) /= <<>>
                 /\ ConvertOf(op, as_decimal(sts[i].value.amount)[1],
                        unit_qid_from_uri(DictGet(sts[i].value, "unit", <<>>))) /= <<>>
    IN  { ConvertOf(op, as_decimal(sts[i].value.amount)[1],
              unit_qid_from_uri(DictGet(sts[i].value, "unit", <<>>)))[1] :
          i \in {j \in 1..Len(sts) : ok(j)} }

AggregateOps == {"best_mass_kg", "best_lifespan_yr", "best_gestation_days", "best_speed_mph"}

\* C7: mass, lifespan, gestation and speed are the largest canonical value
\* of the authoritative statements that convert (as a float), and None when
\* no authoritative statement converts.
C7_MaxOfConverted ==
    last.op \in AggregateOps =>
        LET S == Canonical(last.op, EntityOf(args))
        IN  IF S = {} THEN last.result = <<>>
            ELSE /\ last.result /= <<>>
                 /\ \E v \in S : /\ last.result[1] = float(v)
                                 /\ \A w \in S : ~DecLess(v, w)

\* Mass claims [5 kg, 11000 g] have aggregated to 11 kg.
C7_Witness ==
    /\ last.op = "best_mass_kg"
    /\ Len(args.statements) = 2
    /\ \A i \in 1..2 : RankOf(args.statements[i]) = "normal"
    /\ args.statements[1].value = Quantity(<<"+","5">>, UnitUri(Q_KG))
    /\ args.statements[2].value = Quantity(<<"+","1","1","0","0","0">>, UnitUri(Q_G))
    /\ last.result = <<float(Literal(<<"1","1">>))>>

\* No statement of the input converts, and the trait is None.
C7_WitnessNone ==
    /\ last.op = "best_lifespan_yr"
    /\ args.statements /= <<>>
    /\ Canonical(last.op, EntityOf(args)) = {}
    /\ last.result = <<>>

(***************************************************************************)
(* build_mammals_csv.py: conservation status, scientific name, images.     *)
(***************************************************************************)
MAP_LIKE_IMAGE_KEYWORDS ==
    { <<"a","r","e","a">>, <<"d","i","s","t","r","i","b","u","t","i","o","n">>, <<"l","o","c","a","t","o","r">>, <<"l","o","c","a","t","i","o","n">>, <<"m","a","p">>, <<"r","a","n","g","e">>, <<"t","e","r","r","i","t","o","r","y">> }

IMAGE_FILE_EXTENSIONS ==
    { <<".","g","i","f">>, <<".","j","p","e","g">>, <<".","j","p","g">>, <<".","p","n","g">>, <<".","t","i","f">>, <<".","t","i","f","f">>, <<".","w","e","b","p">> }

\* name[5:] if name.lower().startswith("file:") else name
strip_file_prefix(name) ==
    IF startswith(str_lower(name), <<"f","i","l","e",":">>) THEN SubSeq(name, 6, Len(name)) ELSE name

\* The "id" of each item value of the statements that pick_best_statements keeps
item_id(dv) ==
    IF dv.type = "item" /\ "id" \in DOMAIN dv /\ dv.id /= <<>> THEN <<dv.id>> ELSE <<>>

item_ids_of(statements) ==
    Flatten([i \in 1..Len(statements) |-> item_id(datavalue(statements[i]))])

extract_item_claim_qids(entity, prop) ==
    item_ids_of(pick_best_statements(DictGet(entity, prop, <<>>)))

string_value(clean) == IF clean /= <<>> THEN <<clean>> ELSE <<>>

string_of(dv) == IF dv.type = "string" THEN string_value(str_strip(dv.text)) ELSE <<>>

strings_of(statements) ==
    Flatten([i \in 1..Len(statements) |-> string_of(datavalue(statements[i]))])

extract_string_claims(entity, prop) ==
    strings_of(pick_best_statements(DictGet(entity, prop, <<>>)))

first_or_none(names) == IF names /= <<>> THEN names[1] ELSE None

best_scientific_name(entity) == first_or_none(extract_string_claims(entity, P_TAXON_NAME))

strip_status_suffix(clean) ==
    IF endswith(str_lower(clean), <<" ","s","t","a","t","u","s">>)
    THEN str_strip(SubSeq(clean, 1, Len(clean) - 7))
    ELSE clean

normalize_conservation_status(label) == strip_status_suffix(str_strip(label))

\* A test of the status that only asks for a non-empty one
is_usable_any_status(status) == Truthy(status)

is_usable_conservation_status(status) ==
    /\ Truthy(status)
    /\ ~startswith(str_lower(str_strip(status)), <<"d","a","t","a"," ","d","e","f","i","c","i","e","n","t">>)

\* wikidata_label: the reply is <<>> when the request raises, else the list
\* holding the English label of the item (None when it has none).  The
\* result is the label and the cache after the call.
wikidata_label(qid, cache, reply) ==
    IF qid \in DOMAIN cache THEN [label |-> cache[qid], cache |-> cache]
    ELSE IF reply = <<>> THEN [label |-> None, cache |-> DictSet(cache, qid, None)]
    ELSE [label |-> reply[1], cache |-> DictSet(cache, qid, reply[1])]

\* The status taken from the first reference alone: no label, no status
status_of_label_first_only(qids, i, labels, looked) ==
    IF Truthy(looked.label)
    THEN { [status |-> normalize_conservation_status(looked.label), cache |-> looked.cache] }
    ELSE { [status |-> None, cache |-> looked.cache] }

\* best_conservation_status over the item ids qids from position i: every
\* result the replies of the label service allow, each with the cache it
\* leaves.
RECURSIVE status_from(_, _, _, _)
status_of_label(qids, i, labels, looked) ==
    IF Truthy(looked.label)
    THEN { [status |-> normalize_conservation_status(looked.label), cache |-> looked.cache] }
    ELSE status_from(qids, i + 1, labels, looked.cache)

status_from(qids, i, labels, cache) ==
    IF i > Len(qids) THEN { [status |-> None, cache |-> cache] }
    ELSE IF qids[i] \in DOMAIN cache
    THEN status_of_label(qids, i, labels, wikidata_label(qids[i], cache, <<>>))
    ELSE UNION { status_of_label(qids, i, labels, wikidata_label(qids[i], cache, reply)) :
                    reply \in { <<>>, <<DictGet(labels, qids[i], None)>> } }

best_conservation_status(entity, labels, cache) ==
    status_from(extract_item_claim_qids(entity, P_CONSERVATION_STATUS), 1, labels, cache)

wikipedia_url(title) ==
    <<"h","t","t","p","s",":","/","/","e","n",".","w","i","k","i","p","e","d","i","a",".","o","r","g","/","w","i","k","i","/">>
        \o quote(str_replace_char(title, " ", "_"), {":", "/", "(", ")", "'", "%"})

NotSlash(c) == c /= "/"

FirstIndex(s, sub) ==
    CHOOSE i \in 1..(Len(s) - Len(sub) + 1) :
        /\ SubSeq(s, i, i + Len(sub) - 1) = sub
        /\ \A j \in 1..(i - 1) : SubSeq(s, j, j + Len(sub) - 1) /= sub

\* s up to the first character of stops
before_any(s, stops) ==
    IF \E i \in 1..Len(s) : s[i] \in stops
    THEN SubSeq(s, 1, (CHOOSE i \in 1..Len(s) :
                          s[i] \in stops /\ \A j \in 1..(i - 1) : s[j] \notin stops) - 1)
    ELSE s

from_first_slash(rest) ==
    IF contains(rest, <<"/">>) THEN SubSeq(rest, FirstIndex(rest, <<"/">>), Len(rest))
    ELSE <<>>

\* urlparse(url).path of an absolute URL or of a bare path
url_path(url) ==
    before_any(
        IF contains(url, <<":","/","/">>)
        THEN from_first_slash(SubSeq(url, FirstIndex(url, <<":","/","/">>) + 3, Len(url)))
        ELSE url,
        {"?", "#"})

thumb_index(parts) ==
    CHOOSE i \in 1..Len(parts) :
        parts[i] = <<"t","h","u","m","b">> /\ \A j \in 1..(i - 1) : parts[j] /= <<"t","h","u","m","b">>

raw_name_of(parts) ==
    IF (\E i \in 1..Len(parts) : parts[i] = <<"t","h","u","m","b">>) /\ Len(parts) > thumb_index(parts) + 2
    THEN parts[thumb_index(parts) + 3]
    ELSE parts[Len(parts)]

name_or_none(name) == IF name = <<>> THEN None ELSE strip_file_prefix(name)

name_of_parts(parts) ==
    IF parts = <<>> THEN None ELSE name_or_none(unquote(raw_name_of(parts)))

filename_from_image_url(url) ==
    IF ~Truthy(url) THEN None
    ELSE IF url_path(url) = <<>> THEN None
    ELSE name_of_parts(Runs(url_path(url), NotSlash))

has_supported_image_extension(filename) ==
    \E ext \in IMAGE_FILE_EXTENSIONS : endswith(str_lower(filename), ext)

any_keyword(tokens) == \E k \in 1..Len(tokens) : tokens[k] \in MAP_LIKE_IMAGE_KEYWORDS

is_map_like_image_name_or_url(value) ==
    /\ Truthy(value)
    /\ any_keyword(alnum_runs(str_lower(unquote(value))))

\* The name that page_image_filenames_from_enwiki makes of a raw title
image_name(raw) ==
    str_replace_char(str_strip(strip_file_prefix(raw)), " ", "_")

listed_name(name) ==
    IF name = <<>> \/ ~has_supported_image_extension(name) THEN <<>> ELSE <<name>>

\* page_image_filenames_from_enwiki on the pages of the reply: the images
\* of the first page, or [] when there is no page.
page_image_filenames_from_enwiki(pages) ==
    IF pages = <<>> THEN <<>>
    ELSE Flatten([i \in 1..Len(pages[1].images) |->
                     listed_name(image_name(pages[1].images[i]))])

pageimage_or(pageimage, url) ==
    IF Truthy(pageimage) THEN pageimage ELSE filename_from_image_url(url)

\* lead_image_from_enwiki on the pages of the reply: (url, filename)
lead_image_from_enwiki(pages) ==
    IF pages = <<>> THEN [url |-> None, filename |-> None]
    ELSE [url |-> pages[1].source,
          filename |-> pageimage_or(pages[1].pageimage, pages[1].source)]

\* The title that commons_metadata_for_filename asks Commons about
commons_title(filename) ==
    <<"F","i","l","e",":">> \o str_replace_char(strip_file_prefix(unquote(str_strip(filename))), "_", " ")

NoMetadata == [file_page |-> None, url |-> None, license |-> None, attribution |-> None]

attribution_of(artist, credit, license_short) ==
    IF Truthy(artist) /\ Truthy(license_short) THEN artist \o <<" ","/"," ">> \o license_short
    ELSE IF Truthy(credit) /\ Truthy(license_short) THEN credit \o <<" ","/"," ">> \o license_short
    ELSE IF Truthy(license_short) THEN license_short
    ELSE None

metadata_of(title, info) ==
    [file_page |-> <<"h","t","t","p","s",":","/","/","c","o","m","m","o","n","s",".","w","i","k","i","m","e","d","i","a",".","o","r","g","/","w","i","k","i","/">>
                       \o quote(str_replace_char(title, " ", "_"), {"/"}),
     url |-> info.url,
     license |-> info.license,
     attribution |-> attribution_of(info.artist, info.credit, info.license)]

\* commons_metadata_for_filename on the page of the reply
commons_metadata_for_filename(filename, page) ==
    IF page.missing THEN NoMetadata
    ELSE IF page.imageinfo = <<>> THEN NoMetadata
    ELSE metadata_of(commons_title(filename), page.imageinfo[1])

\* int(sum(views)) of the items of the reply, 0 when there are none
RECURSIVE views_sum(_)
views_sum(items) == IF items = <<>> THEN 0 ELSE Head(items) + views_sum(Tail(items))

pageviews_last_30d(items) == IF items = <<>> THEN 0 ELSE views_sum(items)

(***************************************************************************)
(* What the services answer in the runs of build_csv.                      *)
(***************************************************************************)
\* The number of candidates of the pool that a run scans
MaxCands == 3

\* The candidates of the pool after the shuffle; the third repeats the first
Pool ==
    << [qid |-> <<"Q","1","4","0">>, label |-> <<"l","i","o","n">>, enwiki_title |-> <<"L","i","o","n">>],
       [qid |-> <<"Q","3","3","6","0","2">>, label |-> <<"g","i","a","n","t"," ","p","a","n","d","a">>, enwiki_title |-> <<"G","i","a","n","t"," ","p","a","n","d","a">>],
       [qid |-> <<"Q","1","4","0">>, label |-> <<"l","i","o","n">>, enwiki_title |-> <<"L","i","o","n">>],
       [qid |-> <<"Q","8","2","0","3","7">>, label |-> <<"o","k","a","p","i">>, enwiki_title |-> <<"O","k","a","p","i">>],
       [qid |-> <<"Q","7","3","7","8">>, label |-> <<"e","l","e","p","h","a","n","t">>, enwiki_title |-> <<"E","l","e","p","h","a","n","t">>] >>

\* --count
Counts == {1, 2}

StatusLC == <<"Q","2","1","1","0","0","5">>
StatusDD == <<"Q","3","2","4","5","2","4","5">>
StatusEN == <<"Q","1","1","3","9","4">>
StatusUnlabelled == <<"Q","7","1","9","6","7","5">>

\* The English labels of the status items; StatusUnlabelled has none
StatusLabels ==
    (StatusLC :> <<"L","e","a","s","t"," ","C","o","n","c","e","r","n">>) @@ (StatusDD :> <<"D","a","t","a"," ","D","e","f","i","c","i","e","n","t">>)
        @@ (StatusEN :> <<"E","n","d","a","n","g","e","r","e","d"," ","s","t","a","t","u","s">>)

ItemValue(qid) == [type |-> "item", id |-> qid]

StringValue(text) == [type |-> "string", text |-> text]

\* The entities that wikidata_entity returns
Entities ==
    { (P_CONSERVATION_STATUS :> <<Statement("normal", ItemValue(StatusLC))>>)
          @@ (P_TAXON_NAME :> <<Statement("normal", StringValue(<<" ","P","a","n","t","h","e","r","a"," ","l","e","o">>))>>)
          @@ (P_MASS :> <<Statement("normal", Quantity(<<"+","1","9","0">>, UnitUri(Q_KG))),
                          Statement("normal", Quantity(<<"+","4","2","0">>, UnitUri(Q_LB)))>>)
          @@ (P_LITTER :> <<Statement("normal", Quantity(<<"+","3">>, <<"1">>))>>),
      (P_CONSERVATION_STATUS :> <<Statement("normal", ItemValue(StatusDD))>>)
          @@ (P_TAXON_NAME :> <<Statement("normal", StringValue(<<"O","k","a","p","i","a">>))>>),
      (P_CONSERVATION_STATUS :> <<Statement("normal", ItemValue(StatusUnlabelled)),
                                  Statement("normal", ItemValue(StatusEN))>>)
          @@ (P_LIFESPAN :> <<Statement("preferred", Quantity(<<"+","2","0">>, UnitUri(Q_YEAR)))>>),
      (P_TAXON_NAME :> <<Statement("deprecated", StringValue(<<"F","e","l","i","s">>))>>) }

\* The traits of each entity, as the best_* functions compute them
EntityTraits ==
    [ent \in Entities |->
        [mass_kg |-> best_mass_kg(ent),
         lifespan_yr |-> best_lifespan_yr(ent),
         gestation_days |-> best_gestation_days(ent),
         litter_size |-> best_litter_size(ent),
         max_speed_mph |-> best_speed_mph(ent),
         scientific_name |-> best_scientific_name(ent)]]

\* What the Pageviews API answers: a failure, or the daily views
PageviewReplies ==
    { [raised |-> TRUE, items |-> <<>>],
      [raised |-> FALSE, items |-> <<>>],
      [raised |-> FALSE, items |-> <<700, 534>>] }

Upload(name) == <<"h","t","t","p","s",":","/","/","u","p","l","o","a","d",".","w","i","k","i","m","e","d","i","a",".","o","r","g","/","w","i","k","i","p","e","d","i","a","/","c","o","m","m","o","n","s","/">> \o name

\* What the PageImages query answers: a failure, or the pages of the reply
LeadReplies ==
    { [raised |-> TRUE, pages |-> <<>>],
      [raised |-> FALSE, pages |-> <<>>],
      [raised |-> FALSE, pages |-> <<[source |-> None, pageimage |-> None]>>],
      [raised |-> FALSE,
       pages |-> <<[source |-> Upload(<<"t","h","u","m","b","/","a","/","a","1","/","L","i","o","n",".","j","p","g","/","6","4","0","p","x","-","L","i","o","n",".","j","p","g">>),
                    pageimage |-> None]>>],
      [raised |-> FALSE, pages |-> <<[source |-> Upload(<<"C","u","b",".","j","p","g">>), pageimage |-> <<"C","u","b",".","j","p","g">>]>>],
      [raised |-> FALSE,
       pages |-> <<[source |-> Upload(<<"L","i","o","n","_","m","a","p",".","p","n","g">>), pageimage |-> <<"L","i","o","n","_","m","a","p",".","p","n","g">>]>>],
      [raised |-> FALSE,
       pages |-> <<[source |-> Upload(<<"P","r","i","d","e",".","j","p","g">>), pageimage |-> <<"P","r","i","d","e",".","j","p","g">>]>>] }

\* What the images query answers when it does not fail: the pages of the reply
ImageListings ==
    { <<>>,
      <<[images |-> << <<"F","i","l","e",":","L","i","o","n"," ","m","a","p",".","p","n","g">>, <<"F","i","l","e",":","R","o","a","r",".","o","g","g">>, <<"F","i","l","e",":","C","u","b",".","j","p","g">>,
                       <<"f","i","l","e",":","L","i","o","n",".","j","p","g">>, <<"F","i","l","e",":","M","a","p","l","e",".","j","p","g">> >>]>>,
      <<[images |-> << <<"F","i","l","e",":","A","r","e","a",".","p","n","g">>, <<"F","i","l","e",":","O","k","a","p","i","%","2","D","r","a","n","g","e",".","j","p","g">>, <<"F","i","l","e",":","P","r","i","d","e",".","j","p","g">>,
                       <<"F","i","l","e",":","M","a","n","e",".","j","p","g">>, <<"F","i","l","e",":","T","a","i","l",".","j","p","g">> >>]>> }

Info(url, license_short, artist, credit) ==
    [url |-> url, license |-> license_short, artist |-> artist, credit |-> credit]

\* The files of Commons: the title and the imageinfo of each page
CommonsFiles ==
    << [title |-> <<"F","i","l","e",":","L","i","o","n",".","j","p","g">>,
        imageinfo |-> <<Info(Upload(<<"L","i","o","n",".","j","p","g">>), <<"C","C","0">>, None, <<"Z","o","o">>)>>],
       [title |-> <<"F","i","l","e",":","L","i","o","n"," ","m","a","p",".","p","n","g">>,
        imageinfo |-> <<Info(Upload(<<"L","i","o","n","_","m","a","p",".","p","n","g">>), <<"C","C"," ","B","Y","-","S","A"," ","4",".","0">>, <<"A","."," ","S","m","i","t","h">>, None)>>],
       [title |-> <<"F","i","l","e",":","P","r","i","d","e",".","j","p","g">>,
        imageinfo |-> <<Info(Upload(<<"L","i","o","n","_","r","a","n","g","e",".","j","p","g">>), <<"C","C"," ","B","Y"," ","2",".","0">>, None, None)>>],
       [title |-> <<"F","i","l","e",":","M","a","p","l","e",".","j","p","g">>,
        imageinfo |-> <<Info(Upload(<<"M","a","p","l","e",".","j","p","g">>), None, <<"B","."," ","J","o","n","e","s">>, None)>>],
       [title |-> <<"F","i","l","e",":","M","a","n","e",".","j","p","g">>,
        imageinfo |-> <<Info(None, <<"C","C","0">>, None, None)>>],
       [title |-> <<"F","i","l","e",":","T","a","i","l",".","j","p","g">>, imageinfo |-> <<>>] >>

\* The page of the reply of Commons for a title
CommonsPage(title) ==
    IF \E i \in 1..Len(CommonsFiles) : CommonsFiles[i].title = title
    THEN [missing |-> FALSE,
          imageinfo |-> CommonsFiles[CHOOSE i \in 1..Len(CommonsFiles) :
                                         CommonsFiles[i].title = title].imageinfo]
    ELSE [missing |-> TRUE, imageinfo |-> <<>>]

\* commons_metadata_for_filename with the reply of Commons
Resolved(filename) ==
    commons_metadata_for_filename(filename, CommonsPage(commons_title(filename)))

(***************************************************************************)
(* build_csv: the image of one candidate.  Every request either raises or  *)
(* is answered, so the block has a set of outcomes; each records the       *)
(* requests made, the primary asset when it resolved, the listing when it  *)
(* was fetched, the image the candidate ends with and whether              *)
(* skipped_map_only was incremented.                                       *)
(***************************************************************************)
Call(fn, arg, raised) == [fn |-> fn, arg |-> arg, raised |-> raised]

\* An outcome that never records the increment of skipped_map_only
Outcome_without_map_only(path, calls, primary, listed, image, map_only) ==
    [path |-> path, calls |-> calls, primary |-> primary, listed |-> listed,
     image |-> image, map_only |-> FALSE]

Outcome(path, calls, primary, listed, image, map_only) ==
    [path |-> path, calls |-> calls, primary |-> primary, listed |-> listed,
     image |-> image, map_only |-> map_only]

Primary(filename, meta) == <<[filename |-> filename, meta |-> meta]>>

\* alt_direct_url and alt_file_page and the URL is not map-like, with the
\* last condition left out
alternate_usable_any_url(alt) == Truthy(alt.url) /\ Truthy(alt.file_page)

\* alt_direct_url and alt_file_page and not is_map_like_image_name_or_url(alt_direct_url)
alternate_usable(alt) ==
    Truthy(alt.url) /\ Truthy(alt.file_page) /\ ~is_map_like_image_name_or_url(alt.url)

\* The loop over page_images from position i
RECURSIVE scan_alternates(_, _, _, _, _)
try_alternate(page_images, i, filename, meta, calls, alt) ==
    IF alternate_usable(alt)
    THEN { Outcome("alternate_accepted", calls, Primary(filename, meta), <<page_images>>,
                   <<alt>>, FALSE) }
    ELSE scan_alternates(page_images, i + 1, filename, meta, calls)

scan_alternates(page_images, i, filename, meta, calls) ==
    IF i > Len(page_images)
    THEN { Outcome("no_alternate", calls, Primary(filename, meta), <<page_images>>,
                   <<>>, TRUE) }
    ELSE IF page_images[i] = filename \/ is_map_like_image_name_or_url(page_images[i])
    THEN scan_alternates(page_images, i + 1, filename, meta, calls)
    ELSE { Outcome("alternate_raised",
                   Append(calls, Call("commons_metadata_for_filename", page_images[i], TRUE)),
                   Primary(filename, meta), <<page_images>>, <<meta>>, FALSE) }
         \cup try_alternate(page_images, i, filename, meta,
                  Append(calls, Call("commons_metadata_for_filename", page_images[i], FALSE)),
                  Resolved(page_images[i]))

\* The block from the request of the listing
listing_outcomes(title, filename, meta, calls) ==
    { Outcome("listing_raised",
              Append(calls, Call("page_image_filenames_from_enwiki", title, TRUE)),
              Primary(filename, meta), <<>>, <<meta>>, FALSE) }
    \cup UNION { scan_alternates(page_image_filenames_from_enwiki(pages), 1, filename, meta,
                     Append(calls, Call("page_image_filenames_from_enwiki", title, FALSE))) :
                 pages \in ImageListings }

\* The block from the metadata of the primary file
primary_outcomes(title, filename, meta, calls) ==
    IF ~(Truthy(meta.url) /\ Truthy(meta.file_page))
    THEN { Outcome("primary_unresolved", calls, <<>>, <<>>, <<>>, FALSE) }
    ELSE IF is_map_like_image_name_or_url(filename) \/ is_map_like_image_name_or_url(meta.url)
    THEN listing_outcomes(title, filename, meta, calls)
    ELSE { Outcome("primary_accepted", calls, Primary(filename, meta), <<>>, <<meta>>, FALSE) }

\* The block from the file name of the lead image
filename_outcomes(title, filename, calls) ==
    IF ~Truthy(filename)
    THEN { Outcome("no_lead", calls, <<>>, <<>>, <<>>, FALSE) }
    ELSE { Outcome("primary_raised",
                   Append(calls, Call("commons_metadata_for_filename", filename, TRUE)),
                   <<>>, <<>>, <<>>, FALSE) }
         \cup primary_outcomes(title, filename, Resolved(filename),
                  Append(calls, Call("commons_metadata_for_filename", filename, FALSE)))

lead_outcomes(title, reply) ==
    IF reply.raised
    THEN { Outcome("lead_raised", <<Call("lead_image_from_enwiki", title, TRUE)>>,
                   <<>>, <<>>, <<>>, FALSE) }
    ELSE filename_outcomes(title, lead_image_from_enwiki(reply.pages).filename,
                           <<Call("lead_image_from_enwiki", title, FALSE)>>)

image_outcomes(title) == UNION { lead_outcomes(title, reply) : reply \in LeadReplies }

\* The outcomes of the image block for each candidate of the pool
ImageOutcomes == [i \in 1..Len(Pool) |-> image_outcomes(Pool[i].enwiki_title)]

(***************************************************************************)
(* build_csv: the loop over the pool.                                      *)
(***************************************************************************)
\* The ids in seen after the first n candidates
seen(n) == {Pool[i].qid : i \in 1..n}

Scanned(s) == [s EXCEPT !.scanned = @ + 1]

row_of(cand, traits, status, views, image) ==
    [wikidata_id |-> cand.qid,
     common_name |-> cand.label,
     scientific_name |-> traits.scientific_name,
     wikipedia_title |-> cand.enwiki_title,
     source_url |-> wikipedia_url(cand.enwiki_title),
     mass_kg |-> traits.mass_kg,
     lifespan_yr |-> traits.lifespan_yr,
     gestation_days |-> traits.gestation_days,
     litter_size |-> traits.litter_size,
     max_speed_mph |-> traits.max_speed_mph,
     conservation_status |-> status,
     pageviews_30d |-> views,
     image_url |-> image.url,
     image_file_page |-> image.file_page,
     image_license |-> image.license,
     image_attribution |-> image.attribution]

views_of(reply) == IF reply.raised THEN <<>> ELSE <<pageviews_last_30d(reply.items)>>

Visit(cand, ent, status, img, emitted) ==
    [op |-> "candidate", qid |-> cand.qid, entity |-> ent, status |-> status,
     path |-> img.path, calls |-> img.calls, primary |-> img.primary,
     listed |-> img.listed, image |-> img.image, emitted |-> emitted]

InitBuild ==
    /\ prog = "build_csv"
    /\ pc = "rows"
    /\ args \in {[count |-> c] : c \in Counts}
    /\ rows = <<>>
    /\ stats = [scanned |-> 0, skipped_no_image |-> 0, skipped_status |-> 0,
                skipped_map_only |-> 0]
    /\ last = [op |-> "none"]
    /\ label_cache = <<>>
    /\ pantheria_file = <<>>
    /\ index = <<>>
    /\ page_cache = <<>>
    /\ file_url_cache = <<>>
    /\ requests = <<>>

InPool ==
    /\ prog = "build_csv"
    /\ pc = "rows"
    /\ stats.scanned < MaxCands
    /\ stats.scanned < Len(Pool)
    /\ Len(rows) < args.count

\* if cand.qid in seen: continue
BuildSeen ==
    /\ InPool
    /\ Pool[stats.scanned + 1].qid \in seen(stats.scanned)
    /\ stats' = Scanned(stats)
    /\ last' = [op |-> "seen", qid |-> Pool[stats.scanned + 1].qid]
    /\ UNCHANGED <<prog, pc, args, rows, legacy_vars, media_vars>>

\* wikidata_entity raises: continue
BuildEntityError ==
    /\ InPool
    /\ Pool[stats.scanned + 1].qid \notin seen(stats.scanned)
    /\ stats' = Scanned(stats)
    /\ last' = [op |-> "entity_raised", qid |-> Pool[stats.scanned + 1].qid]
    /\ UNCHANGED <<prog, pc, args, rows, legacy_vars, media_vars>>

\* The end of an iteration that keeps the two image counters disjoint: a
\* candidate counted in skipped_map_only is not counted in skipped_no_image
BuildStep_disjoint_counters(cand, ent, st, views, img) ==
    /\ label_cache' = st.cache
    /\ IF img.image = <<>>
       THEN /\ stats' = [Scanned(stats) EXCEPT
                            !.skipped_no_image = @ + (IF img.map_only THEN 0 ELSE 1),
                            !.skipped_map_only = @ + (IF img.map_only THEN 1 ELSE 0)]
            /\ rows' = rows
            /\ last' = Visit(cand, ent, st.status, img, FALSE)
       ELSE IF ~is_usable_conservation_status(st.status)
       THEN /\ stats' = [Scanned(stats) EXCEPT !.skipped_status = @ + 1]
            /\ rows' = rows
            /\ last' = Visit(cand, ent, st.status, img, FALSE)
       ELSE /\ stats' = Scanned(stats)
            /\ rows' = Append(rows, row_of(cand, EntityTraits[ent], st.status, views,
                                           img.image[1]))
            /\ last' = Visit(cand, ent, st.status, img, TRUE)

\* The end of the iteration: the counters, the row
BuildStep(cand, ent, st, views, img) ==
    /\ label_cache' = st.cache
    /\ IF img.image = <<>>
       THEN /\ stats' = [Scanned(stats) EXCEPT
                            !.skipped_no_image = @ + 1,
                            !.skipped_map_only = @ + (IF img.map_only THEN 1 ELSE 0)]
            /\ rows' = rows
            /\ last' = Visit(cand, ent, st.status, img, FALSE)
       ELSE IF ~is_usable_conservation_status(st.status)
       THEN /\ stats' = [Scanned(stats) EXCEPT !.skipped_status = @ + 1]
            /\ rows' = rows
            /\ last' = Visit(cand, ent, st.status, img, FALSE)
       ELSE /\ stats' = Scanned(stats)
            /\ rows' = Append(rows, row_of(cand, EntityTraits[ent], st.status, views,
                                           img.image[1]))
            /\ last' = Visit(cand, ent, st.status, img, TRUE)

\* One candidate whose entity is fetched
BuildRow ==
    /\ InPool
    /\ Pool[stats.scanned + 1].qid \notin seen(stats.scanned)
    /\ \E ent \in Entities :
       \E st \in best_conservation_status(ent, StatusLabels, label_cache) :
       \E reply \in PageviewReplies :
       \E img \in ImageOutcomes[stats.scanned + 1] :
           BuildStep(Pool[stats.scanned + 1], ent, st, views_of(reply), img)
    /\ UNCHANGED <<prog, pc, args, legacy_vars, page_cache, file_url_cache, requests>>

\* The loop ends; the rows are written
BuildDone ==
    /\ prog = "build_csv"
    /\ pc = "rows"
    /\ (Len(rows) >= args.count \/ stats.scanned >= Len(Pool))
    /\ pc' = "done"
    /\ last' = [op |-> "written"]
    /\ UNCHANGED <<prog, args, rows, stats, legacy_vars, media_vars>>

NextBuild ==
    \/ BuildSeen
    \/ BuildEntityError
    \/ BuildRow
    \/ BuildDone

SpecBuild == InitBuild /\ [][NextBuild]_vars

(***************************************************************************)
(* AddSoundFromWikipedia.py                                                *)
(***************************************************************************)
AUDIO_EXTENSIONS ==
    { <<".","o","g","g">>, <<".","o","g","a">>, <<".","o","p","u","s">>, <<".","w","a","v">>, <<".","f","l","a","c">>, <<".","m","p","3">>, <<".","m","4","a">>, <<".","a","a","c">> }

PREFERRED_AUDIO_KEYWORDS ==
    { <<"c","a","l","l">>, <<"s","o","n","g">>, <<"s","o","u","n","d">>, <<"v","o","i","c","e">>, <<"v","o","c","a","l">>, <<"r","o","a","r">>, <<"b","a","r","k">>, <<"h","o","w","l">>,
      <<"t","r","u","m","p","e","t">>, <<"e","c","h","o","l","o","c","a","t","i","o","n">> }

DEPRIORITIZE_AUDIO_KEYWORDS ==
    { <<"p","r","o","n","u","n","c","i","a","t","i","o","n">>, <<"s","p","o","k","e","n">>, <<"w","i","k","i">>, <<"w","i","k","i","p","e","d","i","a">>, <<"l","l","-","q">> }

\* value or ""
or_empty(value) == IF value = None THEN <<>> ELSE value

spaced_title(clean) ==
    IF clean = <<>> THEN <<>>
    ELSE str_strip(strip_file_prefix(str_replace_char(clean, "_", " ")))

normalize_title(value) == spaced_title(unquote(str_strip(or_empty(value))))

file_title_of(clean) == IF clean = <<>> THEN <<>> ELSE <<"F","i","l","e",":">> \o clean

normalize_file_title(file_title) == file_title_of(normalize_title(file_title))

\* path.split("/wiki/", 1)[1]
after_wiki(path) == SubSeq(path, FirstIndex(path, <<"/","w","i","k","i","/">>) + 6, Len(path))

title_of_path(path) ==
    IF ~contains(path, <<"/","w","i","k","i","/">>) THEN <<>> ELSE normalize_title(after_wiki(path))

title_of_source(source_url) ==
    IF source_url = <<>> THEN <<>> ELSE title_of_path(url_path(source_url))

title_or_source(title, row) ==
    IF title /= <<>> THEN title
    ELSE title_of_source(str_strip(or_empty(DictGet(row, "source_url", None))))

wikipedia_title_from_row(row) ==
    title_or_source(normalize_title(DictGet(row, "wikipedia_title", <<>>)), row)

is_audio_filename(file_title) ==
    \E ext \in AUDIO_EXTENSIONS : endswith(str_lower(normalize_title(file_title)), ext)

tokenize(value) == alnum_runs(str_lower(value))

ToSet(seq) == {seq[i] : i \in 1..Len(seq)}

\* A scoring that takes no account of the keywords of the file name
score_of_without_keywords(name, title_tokens, scientific_tokens, name_tokens) ==
    Cardinality(title_tokens \cap name_tokens)
    + Cardinality(scientific_tokens \cap name_tokens)
    + (IF endswith(name, <<".","o","g","g">>) \/ endswith(name, <<".","o","g","a">>) \/ endswith(name, <<".","o","p","u","s">>)
       THEN 1 ELSE 0)

score_of(name, title_tokens, scientific_tokens, name_tokens) ==
    (IF \E keyword \in PREFERRED_AUDIO_KEYWORDS : contains(name, keyword) THEN 5 ELSE 0)
    - (IF \E keyword \in DEPRIORITIZE_AUDIO_KEYWORDS : contains(name, keyword) THEN 5 ELSE 0)
    + Cardinality(title_tokens \cap name_tokens)
    + Cardinality(scientific_tokens \cap name_tokens)
    + (IF endswith(name, <<".","o","g","g">>) \/ endswith(name, <<".","o","g","a">>) \/ endswith(name, <<".","o","p","u","s">>)
       THEN 1 ELSE 0)

name_score(name, wiki_title, scientific_name) ==
    score_of(name, ToSet(tokenize(wiki_title)), ToSet(tokenize(scientific_name)),
             ToSet(tokenize(name)))

score_audio_candidate(file_title, wiki_title, scientific_name) ==
    name_score(str_lower(normalize_title(file_title)), wiki_title, scientific_name)

\* A sort by decreasing key that puts the later of two items of equal key
\* first
sort_reverse_later_first(items, keys) ==
    [k \in 1..Len(items) |->
        items[CHOOSE i \in 1..Len(items) :
                 Cardinality({j \in 1..Len(items) :
                     keys[j] > keys[i] \/ (keys[j] = keys[i] /\ j > i)}) = k - 1]]

\* list.sort(key=..., reverse=True) of items whose keys are keys: the items
\* by decreasing key, items of equal key in their original order.
sort_reverse(items, keys) ==
    [k \in 1..Len(items) |->
        items[CHOOSE i \in 1..Len(items) :
                 Cardinality({j \in 1..Len(items) :
                     keys[j] > keys[i] \/ (keys[j] = keys[i] /\ j < i)}) = k - 1]]

first_or_empty(items) == IF items = <<>> THEN <<>> ELSE items[1]

best_of_audio(audio_files, wiki_title, scientific_name) ==
    first_or_empty(sort_reverse(audio_files,
        [i \in 1..Len(audio_files) |->
            score_audio_candidate(audio_files[i], wiki_title, scientific_name)]))

best_audio_file_title(file_titles, wiki_title, scientific_name) ==
    best_of_audio(SelectSeq(file_titles, is_audio_filename), wiki_title, scientific_name)

\* list_page_file_titles on the payloads of the listing and of its
\* continuations: the non-empty titles of the images, in order.
list_page_file_titles(payloads) ==
    SelectSeq(Flatten(payloads), LAMBDA title : title /= None /\ title /= <<>>)

\* The URL that the loop of resolve_audio_file_url takes from a page, or ""
audio_url_of_info(key, info) ==
    IF Truthy(info.url)
       /\ (startswith(str_lower(or_empty(info.mime)), <<"a","u","d","i","o","/">>) \/ is_audio_filename(key))
    THEN info.url
    ELSE <<>>

audio_url_of(key, page) ==
    IF page.missing \/ page.imageinfo = <<>> THEN <<>>
    ELSE audio_url_of_info(key, page.imageinfo[1])

(***************************************************************************)
(* What the services answer in the runs of add_sound_column.               *)
(***************************************************************************)
\* The files that the pages of Wikipedia use: the payloads of the listing
\* of each title.  The page of any other title has no image.
SoundPages ==
    << [title |-> <<"L","i","o","n">>,
        payloads |-> << << <<"F","i","l","e",":","L","i","o","n",".","j","p","g">>, <<"F","i","l","e",":","L","i","o","n"," ","p","r","o","n","u","n","c","i","a","t","i","o","n",".","o","g","g">> >>,
                        << <<>>, <<"F","i","l","e",":","L","i","o","n"," ","r","o","a","r",".","o","g","g">>, <<"F","i","l","e",":","L","i","o","n"," ","c","a","l","l",".","o","g","g">> >> >>],
       [title |-> <<"P","a","n","t","h","e","r","a"," ","l","e","o">>,
        payloads |-> << << <<"F","i","l","e",":","L","i","o","n","_","r","o","a","r",".","o","g","g">> >> >>],
       [title |-> <<"O","k","a","p","i">>,
        payloads |-> << << <<"F","i","l","e",":","O","k","a","p","i",".","j","p","g">>, <<"F","i","l","e",":","O","k","a","p","i",".","o","g","g",".","p","n","g">> >> >>],
       [title |-> <<"T","a","p","i","r">>,
        payloads |-> << << <<"F","i","l","e",":","T","a","p","i","r"," ","w","h","i","s","t","l","e",".","W","A","V">> >> >>] >>

SoundListing(title) ==
    IF \E i \in 1..Len(SoundPages) : SoundPages[i].title = title
    THEN SoundPages[CHOOSE i \in 1..Len(SoundPages) : SoundPages[i].title = title].payloads
    ELSE <<>>

AudioInfo(url, mime) == [url |-> url, mime |-> mime]

\* The audio files of Commons and of Wikipedia
AudioFiles ==
    << << [title |-> <<"F","i","l","e",":","L","i","o","n"," ","r","o","a","r",".","o","g","g">>,
           imageinfo |-> <<AudioInfo(Upload(<<"L","i","o","n","_","r","o","a","r",".","o","g","g">>), <<"a","p","p","l","i","c","a","t","i","o","n","/","o","g","g">>)>>] >>,
       << [title |-> <<"F","i","l","e",":","T","a","p","i","r"," ","w","h","i","s","t","l","e",".","W","A","V">>,
           imageinfo |-> <<AudioInfo(<<"h","t","t","p","s",":","/","/","u","p","l","o","a","d",".","w","i","k","i","m","e","d","i","a",".","o","r","g","/","w","i","k","i","p","e","d","i","a","/","e","n","/","T","a","p","i","r",".","w","a","v">>,
                                     <<"a","u","d","i","o","/","w","a","v">>)>>] >> >>

\* The page of the reply of the api (1: Commons, 2: Wikipedia) for a title
AudioPage(api, title) ==
    IF \E i \in 1..Len(AudioFiles[api]) : AudioFiles[api][i].title = title
    THEN [missing |-> FALSE,
          imageinfo |-> AudioFiles[api][CHOOSE i \in 1..Len(AudioFiles[api]) :
                                           AudioFiles[api][i].title = title].imageinfo]
    ELSE [missing |-> TRUE, imageinfo |-> <<>>]

\* The rows of the mammals file
SoundRows ==
    { [wikipedia_title |-> <<"L","i","o","n">>, source_url |-> <<>>, scientific_name |-> <<"P","a","n","t","h","e","r","a"," ","l","e","o">>],
      [wikipedia_title |-> <<>>, source_url |-> <<"h","t","t","p","s",":","/","/","e","n",".","w","i","k","i","p","e","d","i","a",".","o","r","g","/","w","i","k","i","/","L","i","o","n">>,
       scientific_name |-> <<"P","a","n","t","h","e","r","a"," ","l","e","o">>],
      [wikipedia_title |-> <<"P","a","n","t","h","e","r","a","_","l","e","o">>, source_url |-> <<>>,
       scientific_name |-> <<"P","a","n","t","h","e","r","a"," ","l","e","o">>],
      [wikipedia_title |-> <<>>, source_url |-> <<"h","t","t","p","s",":","/","/","e","x","a","m","p","l","e",".","o","r","g","/","l","i","o","n">>,
       scientific_name |-> <<"P","a","n","t","h","e","r","a"," ","l","e","o">>],
      [wikipedia_title |-> <<"L","i","o","n">>, source_url |-> <<>>, scientific_name |-> <<"P","a","n","t","h","e","r","a"," ","l","e","o">>,
       sound_url |-> <<" ","h","t","t","p","s",":","/","/","e","x","a","m","p","l","e",".","o","r","g","/","r","o","a","r",".","o","g","g">>],
      [wikipedia_title |-> <<"O","k","a","p","i">>, source_url |-> <<>>, scientific_name |-> <<"O","k","a","p","i","a">>],
      [wikipedia_title |-> <<"T","a","p","i","r">>, source_url |-> <<>>, scientific_name |-> <<>>] }

(***************************************************************************)
(* resolve_audio_file_url and find_sound_url_for_page.  Every request      *)
(* either raises or is answered, so a call has a set of results; each      *)
(* holds the URL, the caches after the call, and the keys for which the    *)
(* listing and the file lookup were requested.                             *)
(***************************************************************************)
Resolution(raised, url, cache, looked) ==
    [raised |-> raised, url |-> url, cache |-> cache, looked |-> looked]

\* The loop over (COMMONS_API, ENWIKI_API) from the api-th
RECURSIVE resolve_from(_, _, _)
resolve_answered(key, cache, api, url) ==
    IF url /= <<>> THEN { Resolution(FALSE, url, DictSet(cache, key, url), <<key>>) }
    ELSE resolve_from(key, cache, api + 1)

resolve_from(key, cache, api) ==
    IF api > 2 THEN { Resolution(FALSE, <<>>, DictSet(cache, key, <<>>), <<key>>) }
    ELSE { Resolution(TRUE, <<>>, cache, <<key>>) }
         \cup resolve_answered(key, cache, api, audio_url_of(key, AudioPage(api, key)))

resolve_key(key, cache) ==
    IF key = <<>> THEN { Resolution(FALSE, <<>>, cache, <<>>) }
    ELSE IF key \in DOMAIN cache THEN { Resolution(FALSE, cache[key], cache, <<>>) }
    ELSE resolve_from(key, cache, 1)

resolve_audio_file_url(file_title, cache) ==
    resolve_key(normalize_file_title(file_title), cache)

Found(raised, url, pages, files, listed, looked) ==
    [raised |-> raised, url |-> url, page_cache |-> pages, file_url_cache |-> files,
     listed |-> listed, looked |-> looked]

found_of(wiki_title, pages, r) ==
    Found(r.raised, r.url,
          IF r.raised THEN pages ELSE DictSet(pages, wiki_title, r.url),
          r.cache, <<wiki_title>>, r.looked)

sound_of_audio(wiki_title, pages, files, audio_title) ==
    IF audio_title = <<>>
    THEN { Found(FALSE, <<>>, DictSet(pages, wiki_title, <<>>), files, <<wiki_title>>, <<>>) }
    ELSE { found_of(wiki_title, pages, r) : r \in resolve_audio_file_url(audio_title, files) }

find_sound_url_for_page(wiki_title, scientific_name, pages, files) ==
    IF wiki_title \in DOMAIN pages
    THEN { Found(FALSE, pages[wiki_title], pages, files, <<>>, <<>>) }
    ELSE { Found(TRUE, <<>>, pages, files, <<wiki_title>>, <<>>) }
         \cup sound_of_audio(wiki_title, pages, files,
                  best_audio_file_title(list_page_file_titles(SoundListing(wiki_title)),
                                        wiki_title, scientific_name))

(***************************************************************************)
(* add_sound_column: the loop over the rows of the mammals file.           *)
(***************************************************************************)
\* The requests sent so far: how often the listing of each title and the
\* file lookup of each file title were requested
Counted(counts, keys) ==
    IF keys = <<>> THEN counts
    ELSE DictSet(counts, keys[1], DictGet(counts, keys[1], 0) + 1)

InitSound ==
    /\ prog = "add_sound_column"
    /\ pc = "rows"
    /\ args \in {[column_name |-> "sound_url", force_refresh |-> f] : f \in BOOLEAN}
    /\ rows = <<>>
    /\ stats = [total |-> 0, filled |-> 0, left_blank |-> 0, missing_title |-> 0,
                already_had_value |-> 0, errors |-> 0]
    /\ last = [op |-> "none"]
    /\ page_cache = <<>>
    /\ file_url_cache = <<>>
    /\ requests = [list |-> <<>>, file |-> <<>>]
    /\ label_cache = <<>>
    /\ pantheria_file = <<>>
    /\ index = <<>>

InFile ==
    /\ prog = "add_sound_column"
    /\ pc = "rows"
    /\ stats.total < MaxRows

\* (row.get(column_name) or "").strip()
existing(row, column_name) == str_strip(or_empty(DictGet(row, column_name, None)))

\* A row that already has a value and is not refreshed
SoundKeep ==
    /\ InFile
    /\ \E row \in SoundRows :
        /\ existing(row, args.column_name) /= <<>> /\ ~args.force_refresh
        /\ stats' = Bump(Bump(stats, "total"), "already_had_value")
        /\ rows' = Append(rows, row)
        /\ last' = [op |-> "kept", row |-> row]
    /\ UNCHANGED <<prog, pc, args, legacy_vars, media_vars>>

\* A row without a title
SoundNoTitle ==
    /\ InFile
    /\ \E row \in SoundRows :
        /\ ~(existing(row, args.column_name) /= <<>> /\ ~args.force_refresh)
        /\ wikipedia_title_from_row(row) = <<>>
        /\ stats' = Bump(Bump(Bump(stats, "total"), "missing_title"), "left_blank")
        /\ rows' = Append(rows, DictSet(row, args.column_name, <<>>))
        /\ last' = [op |-> "no_title", row |-> row]
    /\ UNCHANGED <<prog, pc, args, legacy_vars, media_vars>>

\* The end of the iteration of a row whose sound is looked up
SoundStep(row, wiki_title, f) ==
    /\ page_cache' = f.page_cache
    /\ file_url_cache' = f.file_url_cache
    /\ requests' = [list |-> Counted(requests.list, f.listed),
                    file |-> Counted(requests.file, f.looked)]
    /\ stats' = [Bump(stats, "total") EXCEPT
                    !.errors = @ + (IF f.raised THEN 1 ELSE 0),
                    !.filled = @ + (IF f.url /= <<>> THEN 1 ELSE 0),
                    !.left_blank = @ + (IF f.url /= <<>> THEN 0 ELSE 1)]
    /\ rows' = Append(rows, DictSet(row, args.column_name, f.url))
    /\ last' = [op |-> "lookup", row |-> row, wiki_title |-> wiki_title,
                raised |-> f.raised, listed |-> f.listed, looked |-> f.looked,
                sound_url |-> f.url]

SoundLookup ==
    /\ InFile
    /\ \E row \in SoundRows :
        /\ ~(existing(row, args.column_name) /= <<>> /\ ~args.force_refresh)
        /\ wikipedia_title_from_row(row) /= <<>>
        /\ \E f \in find_sound_url_for_page(wikipedia_title_from_row(row),
                        DictGet(row, "scientific_name", <<>>), page_cache, file_url_cache) :
               SoundStep(row, wikipedia_title_from_row(row), f)
    /\ UNCHANGED <<prog, pc, args, legacy_vars, label_cache>>

\* The file is read to its end; the rows are written
SoundDone ==
    /\ prog = "add_sound_column"
    /\ pc = "rows"
    /\ pc' = "done"
    /\ last' = [op |-> "written"]
    /\ UNCHANGED <<prog, args, rows, stats, legacy_vars, media_vars>>

NextSound ==
    \/ SoundKeep
    \/ SoundNoTitle
    \/ SoundLookup
    \/ SoundDone

SpecSound == InitSound /\ [][NextSound]_vars

(***************************************************************************)
(* The runs of the two scripts of MammalMania.                             *)
(***************************************************************************)
InitMedia == InitBuild \/ InitSound

NextMedia ==
    \/ BuildSeen
    \/ BuildEntityError
    \/ BuildRow
    \/ BuildDone
    \/ SoundKeep
    \/ SoundNoTitle
    \/ SoundLookup
    \/ SoundDone

SpecMedia == InitMedia /\ [][NextMedia]_vars

(***************************************************************************)
(* Claims about build_csv and add_sound_column.                            *)
(***************************************************************************)
\* The latest step scanned a candidate whose primary asset resolved
PrimaryResolved == prog = "build_csv" /\ last.op = "candidate" /\ last.primary /= <<>>

\* The file names of the model's pages, and the URLs Commons gives for them
FileNames ==
    {lead_image_from_enwiki(reply.pages).filename : reply \in LeadReplies}
        \cup UNION {ToSet(page_image_filenames_from_enwiki(pages)) : pages \in ImageListings}

FileUrls == {Resolved(name).url : name \in FileNames \ {None}}

\* is_map_like_image_name_or_url of each of them
MapLike == [value \in FileNames \cup FileUrls |-> is_map_like_image_name_or_url(value)]

\* The primary asset of the latest candidate is map-like by name or by URL
MapLikePrimary ==
    /\ PrimaryResolved
    /\ MapLike[last.primary[1].filename] \/ MapLike[last.primary[1].meta.url]

NoFailure(calls) == \A i \in 1..Len(calls) : ~calls[i].raised

\* C1 as stated: a candidate whose primary image is map-like never ends
\* with the primary asset: it ends with a non-map-like alternate or with
\* no image, whatever the services do, and no row of the candidate carries
\* the URL of the primary.
C1_MapLikePrimaryNeverKept ==
    MapLikePrimary =>
        /\ \/ /\ last.path = "alternate_accepted"
              /\ last.image /= <<>>
              /\ last.image /= <<last.primary[1].meta>>
              /\ ~MapLike[last.image[1].url]
           \/ last.path = "no_alternate" /\ last.image = <<>>
        /\ \A i \in 1..Len(rows) :
              rows[i].wikidata_id = last.qid
                  => rows[i].image_url /= last.primary[1].meta.url

\* What Commons gives for each file name
Metadata == [name \in FileNames \ {None} |-> Resolved(name)]

\* The positions of the listing that hold an acceptable alternate: not the
\* primary file, not map-like by name, resolved with a URL and a file page,
\* and the URL not map-like.
Acceptable(names, primary) ==
    {i \in 1..Len(names) :
        /\ names[i] /= primary.filename
        /\ ~MapLike[names[i]]
        /\ Truthy(Metadata[names[i]].url)
        /\ Truthy(Metadata[names[i]].file_page)
        /\ ~MapLike[Metadata[names[i]].url]}

Least(S) == CHOOSE i \in S : \A j \in S : i <= j

\* C2: when the primary image is map-like and no request of the image
\* block fails, the image is the metadata of the first acceptable name of
\* the listing, no name after it is submitted to Commons, and an emitted
\* row carries its URL, file page, license and attribution; with no
\* acceptable name the candidate has no image.
C2_FirstAcceptableAlternate ==
    (MapLikePrimary /\ NoFailure(last.calls)) =>
        /\ last.listed /= <<>>
        /\ LET names == last.listed[1]
               ok == Acceptable(names, last.primary[1])
           IN  IF ok = {}
               THEN last.path = "no_alternate" /\ last.image = <<>>
               ELSE /\ last.path = "alternate_accepted"
                    /\ last.image = <<Metadata[names[Least(ok)]]>>
                    /\ \A c \in 4..Len(last.calls) :
                          \E i \in 1..Least(ok) : last.calls[c].arg = names[i]
                    /\ last.emitted =>
                          /\ rows[Len(rows)].image_url = Metadata[names[Least(ok)]].url
                          /\ rows[Len(rows)].image_file_page
                                 = Metadata[names[Least(ok)]].file_page
                          /\ rows[Len(rows)].image_license
                                 = Metadata[names[Least(ok)]].license
                          /\ rows[Len(rows)].image_attribution
                                 = Metadata[names[Least(ok)]].attribution

\* C2 witness: a row is emitted with the first of two acceptable
\* alternates of a map-like primary, whose URL, license and attribution
\* differ from the primary's.
C2_Witness ==
    /\ MapLikePrimary
    /\ NoFailure(last.calls)
    /\ last.path = "alternate_accepted"
    /\ last.emitted
    /\ Cardinality(Acceptable(last.listed[1], last.primary[1])) > 1
    /\ rows[Len(rows)].image_url /= last.primary[1].meta.url
    /\ rows[Len(rows)].image_license /= last.primary[1].meta.license
    /\ rows[Len(rows)].image_attribution /= last.primary[1].meta.attribution

\* The counters of build_csv that tally rejected candidates
Rejections(s) == s.skipped_no_image + s.skipped_status + s.skipped_map_only

\* C3 as stated: when a request made for a candidate or a row raises, the
\* loop goes on, the field the request was for is absent and a counter of
\* errors or rejections is incremented: in build_csv the entity and every
\* request of the image block, in add_sound_column the listing and the
\* file lookup.
C3_FailureIsCounted ==
    [][ /\ (prog = "build_csv" /\ last'.op = "entity_raised")
            => pc' = "rows" /\ Rejections(stats') > Rejections(stats)
        /\ (prog = "build_csv" /\ last'.op = "candidate" /\ ~NoFailure(last'.calls))
            => /\ pc' = "rows"
               /\ last'.image = <<>>
               /\ ~last'.emitted
               /\ Rejections(stats') > Rejections(stats)
        /\ (prog = "add_sound_column" /\ last'.op = "lookup" /\ last'.raised)
            => /\ pc' = "rows"
               /\ rows'[Len(rows')][args.column_name] = <<>>
               /\ stats'.errors = stats.errors + 1 ]_vars

\* C4 as stated: in a run of add_sound_column the listing is requested at
\* most once for each title and the file lookup at most once for each
\* normalized file title.
C4_AtMostOncePerKey ==
    prog = "add_sound_column" =>
        /\ \A title \in DOMAIN requests.list : requests.list[title] <= 1
        /\ \A key \in DOMAIN requests.file : requests.file[key] <= 1

(***************************************************************************)
(* The selection of the audio file of a page, on its own: the calls of     *)
(* score_audio_candidate and best_audio_file_title on lists of file titles *)
(* as the listing of a page gives them.                                    *)
(***************************************************************************)
MaxTitles == 3

\* File titles of a page: two that tie on the best score, a file that is
\* not audio but scores higher than every audio file, an extension in
\* capitals, and a title with both kinds of keyword.
AudioTitles ==
    { <<"L","i","o","n","_","r","o","a","r",".","o","g","g">>,
      <<"L","i","o","n","_","p","r","o","n","u","n","c","i","a","t","i","o","n",".","o","g","g">>,
      <<"F","i","l","e",":","L","i","o","n"," ","c","a","l","l",".","o","g","g">>,
      <<"F","i","l","e",":","L","i","o","n"," ","P","a","n","t","h","e","r","a"," ","l","e","o"," ","r","o","a","r",".","p","n","g">>,
      <<"R","o","a","r",".","M","P","3">>,
      <<"F","i","l","e",":","S","p","o","k","e","n","_","r","o","a","r",".","o","g","a">> }

\* (wiki_title, scientific_name) of the rows
AudioQueries ==
    { << <<"L","i","o","n">>, <<"P","a","n","t","h","e","r","a"," ","l","e","o">> >>,
      << <<"O","k","a","p","i">>, <<>> >> }

RECURSIVE TitleLists(_)
TitleLists(n) ==
    IF n = 0 THEN { <<>> }
    ELSE TitleLists(n - 1)
         \cup { Append(titles, title) : titles \in TitleLists(n - 1), title \in AudioTitles }

AudioInputs ==
    [file_titles : TitleLists(MaxTitles),
     wiki_title : {query[1] : query \in AudioQueries},
     scientific_name : {query[2] : query \in AudioQueries}]

InitAudio ==
    /\ prog = "audio"
    /\ pc = "call"
    /\ args \in {input \in AudioInputs :
                    <<input.wiki_title, input.scientific_name>> \in AudioQueries}
    /\ rows = <<>>
    /\ stats = <<>>
    /\ last = [op |-> "none"]
    /\ pantheria_file = <<>>
    /\ index = <<>>
    /\ label_cache = <<>>
    /\ page_cache = <<>>
    /\ file_url_cache = <<>>
    /\ requests = <<>>

\* score_audio_candidate of each file title of the list
ScoreAudioCandidate ==
    /\ prog = "audio" /\ pc = "call"
    /\ pc' = "done"
    /\ last' = [op |-> "score_audio_candidate",
                result |-> [i \in 1..Len(args.file_titles) |->
                    score_audio_candidate(args.file_titles[i], args.wiki_title,
                                          args.scientific_name)]]
    /\ UNCHANGED <<prog, args, rows, stats, legacy_vars, media_vars>>

BestAudioFileTitle ==
    /\ prog = "audio" /\ pc = "call"
    /\ pc' = "done"
    /\ last' = [op |-> "best_audio_file_title",
                result |-> best_audio_file_title(args.file_titles, args.wiki_title,
                                                 args.scientific_name)]
    /\ UNCHANGED <<prog, args, rows, stats, legacy_vars, media_vars>>

NextAudio ==
    \/ ScoreAudioCandidate
    \/ BestAudioFileTitle

SpecAudio == InitAudio /\ [][NextAudio]_vars

(***************************************************************************)
(* Claims about the selection of the audio file, checked under SpecAudio.  *)
(***************************************************************************)
\* Whether each sample title is audio by its extension, and its score for
\* each query.
IsAudio == <<>> @@ [title \in AudioTitles |-> is_audio_filename(title)]

ScoreFor ==
    <<>> @@ [key \in AudioTitles \X AudioQueries |->
        score_audio_candidate(key[1], key[2][1], key[2][2])]

ScoreIn(input, i) ==
    ScoreFor[<<input.file_titles[i], <<input.wiki_title, input.scientific_name>>>>]

AudioPositions(input) ==
    {i \in 1..Len(input.file_titles) : IsAudio[input.file_titles[i]]}

BestPositions(input) ==
    {i \in AudioPositions(input) :
        \A j \in AudioPositions(input) : ScoreIn(input, j) <= ScoreIn(input, i)}

\* C11: best_audio_file_title returns "" when no title of the list is audio
\* by its extension; otherwise it returns the audio title with the maximum
\* score, and of several audio titles with the maximum score the first of
\* the list. A title that is not audio is never returned.
C11_BestAudioIsFirstMaximum ==
    last.op = "best_audio_file_title" =>
        IF AudioPositions(args) = {}
        THEN last.result = <<>>
        ELSE /\ last.result = args.file_titles[Least(BestPositions(args))]
             /\ IsAudio[last.result]

\* Two audio titles tie on the maximum score, a title that is not audio
\* scores higher than both and stands first, and the first of the two is
\* returned.
C11_Witness ==
    /\ last.op = "best_audio_file_title"
    /\ Len(args.file_titles) = 3
    /\ ~IsAudio[args.file_titles[1]]
    /\ ScoreIn(args, 1) > ScoreIn(args, 2)
    /\ BestPositions(args) = {2, 3}
    /\ args.file_titles[2] /= args.file_titles[3]
    /\ last.result = args.file_titles[2]

\* The parts of the score of a sample title for a query, computed from the
\* file name apart from score_audio_candidate.
FileName(title) == str_lower(normalize_title(title))

LastDot(name) ==
    IF \E i \in 1..Len(name) : name[i] = "." 
    THEN CHOOSE i \in 1..Len(name) :
            name[i] = "." /\ \A j \in (i + 1)..Len(name) : name[j] /= "."
    ELSE 0

Extension(name) ==
    IF LastDot(name) = 0 THEN <<>> ELSE SubSeq(name, LastDot(name), Len(name))

Overlap(name, words) ==
    Cardinality(ToSet(tokenize(words)) \cap ToSet(tokenize(name)))

AudioTraits ==
    <<>> @@ [key \in AudioTitles \X AudioQueries |->
        [preferred |-> \E keyword \in PREFERRED_AUDIO_KEYWORDS :
                          contains(FileName(key[1]), keyword),
         deprioritized |-> \E keyword \in DEPRIORITIZE_AUDIO_KEYWORDS :
                          contains(FileName(key[1]), keyword),
         overlap |-> Overlap(FileName(key[1]), key[2][1])
                     + Overlap(FileName(key[1]), key[2][2]),
         extension |-> Extension(FileName(key[1]))]]

TraitsIn(input, i) ==
    AudioTraits[<<input.file_titles[i], <<input.wiki_title, input.scientific_name>>>>]

\* Title i has a preferred keyword only, title j a deprioritized keyword
\* only, and both have the same token overlap and the same extension.
PreferredAgainstDeprioritized(input, i, j) ==
    /\ TraitsIn(input, i).preferred /\ ~TraitsIn(input, i).deprioritized
    /\ TraitsIn(input, j).deprioritized /\ ~TraitsIn(input, j).preferred
    /\ TraitsIn(input, i).overlap = TraitsIn(input, j).overlap
    /\ TraitsIn(input, i).extension = TraitsIn(input, j).extension

\* C12: for one title and scientific name, a file name with a preferred
\* keyword and no deprioritized keyword scores strictly higher than a file
\* name with a deprioritized keyword and no preferred keyword that has the
\* same token overlap and the same extension; "Lion_roar.ogg" scores
\* strictly higher than "Lion_pronunciation.ogg" for the title "Lion".
C12_PreferredScoresHigher ==
    last.op = "score_audio_candidate" =>
        \A i, j \in 1..Len(args.file_titles) :
            \/ PreferredAgainstDeprioritized(args, i, j)
            \/ /\ args.file_titles[i] = <<"L","i","o","n","_","r","o","a","r",".","o","g","g">>
               /\ args.file_titles[j] = <<"L","i","o","n","_","p","r","o","n","u","n","c","i","a","t","i","o","n",".","o","g","g">>
               /\ args.wiki_title = <<"L","i","o","n">>
            => last.result[i] > last.result[j]

\* The two file names of the example are scored for the title "Lion", and
\* they differ in nothing but the class of their keyword.
C12_Witness ==
    /\ last.op = "score_audio_candidate"
    /\ args.wiki_title = <<"L","i","o","n">>
    /\ Len(args.file_titles) >= 2
    /\ args.file_titles[1] = <<"L","i","o","n","_","p","r","o","n","u","n","c","i","a","t","i","o","n",".","o","g","g">>
    /\ args.file_titles[2] = <<"L","i","o","n","_","r","o","a","r",".","o","g","g">>
    /\ PreferredAgainstDeprioritized(args, 2, 1)
    /\ last.result[1] = 0 - 3
    /\ last.result[2] = 7

(***************************************************************************)
(* Claims about the image block and the status of build_csv, checked under *)
(* SpecBuild.                                                              *)
(***************************************************************************)
\* The latest candidate had a map-like primary asset, every request of its
\* image block was answered, and no name of the listing was an acceptable
\* alternate.
AlternatesExhausted ==
    /\ MapLikePrimary
    /\ NoFailure(last.calls)
    /\ last.listed /= <<>>
    /\ Acceptable(last.listed[1], last.primary[1]) = {}

\* No primary asset resolved for the latest candidate
NoPrimary == prog = "build_csv" /\ last.op = "candidate" /\ last.primary = <<>>

\* C13: a candidate whose primary image is map-like and whose listing holds
\* no acceptable alternate ends with no image and adds exactly one to
\* skipped_map_only; a candidate with no resolved primary image ends with
\* no image and adds exactly one to skipped_no_image; no row is emitted for
\* either, and every candidate that ends with no image is one of the two.
C13_NoImageIsCounted ==
    [][ last'.op = "candidate" =>
          /\ AlternatesExhausted' =>
                /\ last'.image = <<>>
                /\ stats'.skipped_map_only = stats.skipped_map_only + 1
                /\ rows' = rows
          /\ NoPrimary' =>
                /\ last'.image = <<>>
                /\ stats'.skipped_no_image = stats.skipped_no_image + 1
                /\ stats'.skipped_map_only = stats.skipped_map_only
                /\ rows' = rows
          /\ last'.image = <<>> =>
                /\ AlternatesExhausted' \/ NoPrimary'
                /\ rows' = rows /\ ~last'.emitted ]_vars

\* A candidate with a map-like primary and no acceptable alternate has just
\* been counted in skipped_map_only, after a candidate whose row was emitted.
C13_Witness ==
    /\ AlternatesExhausted
    /\ last.image = <<>>
    /\ stats.skipped_map_only = 1
    /\ stats.skipped_no_image = 1
    /\ Len(rows) = 1
    /\ rows[1].wikidata_id /= last.qid

\* The positions of the requests of one function among the calls
CallsOf(calls, fn) == {c \in 1..Len(calls) : calls[c].fn = fn}

\* The requests to Commons made for alternates: those after the listing
AlternateCalls(calls) ==
    {c \in CallsOf(calls, "commons_metadata_for_filename") :
        \E l \in CallsOf(calls, "page_image_filenames_from_enwiki") : l < c}

\* The image block of the latest candidate made one scan: the listing was
\* requested at most once, no file name was submitted to Commons twice, and
\* no request followed the alternate that was accepted.
OneLinearScan ==
    (prog = "build_csv" /\ last.op = "candidate") =>
        /\ Cardinality(CallsOf(last.calls, "page_image_filenames_from_enwiki")) <= 1
        /\ \A c, d \in CallsOf(last.calls, "commons_metadata_for_filename") :
              last.calls[c].arg = last.calls[d].arg => c = d
        /\ \A c \in AlternateCalls(last.calls) :
              (/\ ~last.calls[c].raised
               /\ Truthy(Metadata[last.calls[c].arg].url)
               /\ Truthy(Metadata[last.calls[c].arg].file_page)
               /\ ~MapLike[Metadata[last.calls[c].arg].url])
              => /\ c = Len(last.calls)
                 /\ last.image = <<Metadata[last.calls[c].arg]>>

\* The terminal states of the image block, by what leads to them
Accepted ==
    PrimaryResolved /\ ~MapLikePrimary /\ last.image = <<last.primary[1].meta>>

AlternateAccepted ==
    /\ MapLikePrimary
    /\ last.listed /= <<>>
    /\ \E i \in Acceptable(last.listed[1], last.primary[1]) :
          last.image = <<Metadata[last.listed[1][i]]>>

NoAlternate ==
    /\ MapLikePrimary
    /\ last.listed /= <<>>
    /\ Acceptable(last.listed[1], last.primary[1]) = {}
    /\ last.image = <<>>

NoImage == NoPrimary /\ last.image = <<>>

\* C14 as stated: the image block of a candidate requests the listing at
\* most once, submits each alternate file name at most once, examines no
\* alternate after the accepted one, and always ends in one of Accepted,
\* AlternateAccepted, NoAlternate and NoImage.
C14_OneScanThenTerminal ==
    (prog = "build_csv" /\ last.op = "candidate") =>
        /\ OneLinearScan
        /\ Accepted \/ AlternateAccepted \/ NoAlternate \/ NoImage

\* The status references of each entity, in the order of the rank policy
StatusReferences ==
    <<>> @@ [ent \in Entities |-> extract_item_claim_qids(ent, P_CONSERVATION_STATUS)]

\* The positions of the references whose label was looked up and is a
\* non-empty text
Labelled(qids, cache) ==
    {i \in 1..Len(qids) : qids[i] \in DOMAIN cache /\ Truthy(cache[qids[i]])}

\* C15 as stated: the status of a candidate is the label of its first
\* status reference with a trailing " status" stripped, and None when that
\* reference gives no label; it is never taken from a later reference.
C15_StatusFromFirstReference ==
    (prog = "build_csv" /\ last.op = "candidate") =>
        LET qids == StatusReferences[last.entity]
        IN  IF qids /= <<>> /\ 1 \in Labelled(qids, label_cache)
            THEN last.status = normalize_conservation_status(label_cache[qids[1]])
            ELSE last.status = None

\* C15, amended: the status of a candidate is the label, with a trailing
\* " status" stripped, of the first status reference whose label lookup
\* gives a non-empty text; the references before it were all looked up and
\* gave none; the status is None when no reference gives a label.
C15_StatusFromFirstLabelledReference ==
    (prog = "build_csv" /\ last.op = "candidate") =>
        LET qids == StatusReferences[last.entity]
            hits == Labelled(qids, label_cache)
        IN  IF hits = {}
            THEN /\ last.status = None
                 /\ \A i \in 1..Len(qids) : qids[i] \in DOMAIN label_cache
            ELSE /\ last.status
                        = normalize_conservation_status(label_cache[qids[Least(hits)]])
                 /\ \A i \in 1..Least(hits) : qids[i] \in DOMAIN label_cache

\* The first reference of the candidate has no label and the status comes
\* from the second, with its suffix stripped.
C15_Witness ==
    /\ prog = "build_csv" /\ last.op = "candidate"
    /\ StatusReferences[last.entity] = <<StatusUnlabelled, StatusEN>>
    /\ label_cache[StatusUnlabelled] = None
    /\ label_cache[StatusEN] = <<"E","n","d","a","n","g","e","r","e","d"," ","s","t","a","t","u","s">>
    /\ last.status = <<"E","n","d","a","n","g","e","r","e","d">>

\* A status that is present, not empty and, without regard to case and to
\* the blanks around it, does not begin with "data deficient"
UsableStatus(status) ==
    /\ status /= None
    /\ status /= <<>>
    /\ LET clean == str_lower(str_strip(status))
       IN  ~(Len(clean) >= 14 /\ SubSeq(clean, 1, 14) = <<"d","a","t","a"," ","d","e","f","i","c","i","e","n","t">>)

\* C16: every row of build_csv has a usable conservation status; a
\* candidate whose status is absent or data deficient gets no row and is
\* counted as rejected, in skipped_status when it has an image, whatever its
\* traits and image.
C16_RowsHaveUsableStatus ==
    /\ [](prog = "build_csv" =>
             \A i \in 1..Len(rows) : UsableStatus(rows[i].conservation_status))
    /\ [][ (prog = "build_csv" /\ last'.op = "candidate" /\ ~UsableStatus(last'.status)) =>
              /\ rows' = rows
              /\ ~last'.emitted
              /\ Rejections(stats') > Rejections(stats)
              /\ last'.image /= <<>> => stats'.skipped_status = stats.skipped_status + 1
         ]_vars

\* A data deficient candidate with an image and traits has been rejected
\* after a row was emitted for a candidate of least concern.
C16_Witness ==
    /\ prog = "build_csv" /\ last.op = "candidate"
    /\ last.status = <<"D","a","t","a"," ","D","e","f","i","c","i","e","n","t">>
    /\ last.image /= <<>>
    /\ ~last.emitted
    /\ stats.skipped_status = 1
    /\ Len(rows) = 1
    /\ rows[1].conservation_status = <<"L","e","a","s","t"," ","C","o","n","c","e","r","n">>
    /\ rows[1].wikidata_id /= last.qid

(***************************************************************************)
(* The unit converters on their own, and with the trait functions that use *)
(* them.                                                                   *)
(***************************************************************************)
\* Amounts of statements, as as_decimal gives them
ConvertValues ==
    { Literal(<<"1","0","0","0">>), Literal(<<"1">>), Literal(<<"2",".","5">>), Literal(<<"-","3">>),
      Literal(<<"0",".","0","0","1">>), Literal(<<"7","3","0",".","5">>) }

\* Unit ids as unit_qid_from_uri gives them: the units of the converters,
\* None, and ids that no converter knows
ConvertUnits ==
    { Q_KG, Q_G, Q_MG, Q_TONNE, Q_LB, Q_DAY, Q_WEEK, Q_MONTH, Q_YEAR,
      Q_MPH, Q_KMH, Q_MPS, Q_KNOT, None, <<"Q","1","1","5","7","3">>, <<"q","1","1","5","7","0">>, <<>> }

InitConvert ==
    /\ prog = "convert"
    /\ pc = "call"
    /\ args \in [value : ConvertValues, unit_qid : ConvertUnits]
    /\ rows = <<>>
    /\ stats = <<>>
    /\ last = [op |-> "none"]
    /\ pantheria_file = <<>>
    /\ index = <<>>
    /\ label_cache = <<>>
    /\ page_cache = <<>>
    /\ file_url_cache = <<>>
    /\ requests = <<>>

ConvertMassToKg ==
    /\ prog = "convert" /\ pc = "call"
    /\ pc' = "done"
    /\ last' = [op |-> "convert_mass_to_kg",
                result |-> convert_mass_to_kg(args.value, args.unit_qid)]
    /\ UNCHANGED <<prog, args, rows, stats, legacy_vars, media_vars>>

ConvertTimeToDays ==
    /\ prog = "convert" /\ pc = "call"
    /\ pc' = "done"
    /\ last' = [op |-> "convert_time_to_days",
                result |-> convert_time_to_days(args.value, args.unit_qid)]
    /\ UNCHANGED <<prog, args, rows, stats, legacy_vars, media_vars>>

ConvertTimeToYears ==
    /\ prog = "convert" /\ pc = "call"
    /\ pc' = "done"
    /\ last' = [op |-> "convert_time_to_years",
                result |-> convert_time_to_years(args.value, args.unit_qid)]
    /\ UNCHANGED <<prog, args, rows, stats, legacy_vars, media_vars>>

ConvertSpeedToMph ==
    /\ prog = "convert" /\ pc = "call"
    /\ pc' = "done"
    /\ last' = [op |-> "convert_speed_to_mph",
                result |-> convert_speed_to_mph(args.value, args.unit_qid)]
    /\ UNCHANGED <<prog, args, rows, stats, legacy_vars, media_vars>>

InitUnits == InitTraits \/ InitConvert

NextUnits ==
    \/ PickBestStatements
    \/ ExtractQuantityClaims
    \/ BestMassKg
    \/ BestLifespanYr
    \/ BestGestationDays
    \/ BestSpeedMph
    \/ BestLitterSize
    \/ ConvertMassToKg
    \/ ConvertTimeToDays
    \/ ConvertTimeToYears
    \/ ConvertSpeedToMph

SpecUnits == InitUnits /\ [][NextUnits]_vars

(***************************************************************************)
(* Claims about the unit converters, checked under SpecUnits.              *)
(***************************************************************************)
ConverterOps ==
    {"convert_mass_to_kg", "convert_time_to_days", "convert_time_to_years",
     "convert_speed_to_mph"}

\* The converter behind each trait function
ConverterOf(op) ==
    IF op = "best_mass_kg" THEN "convert_mass_to_kg"
    ELSE IF op = "best_lifespan_yr" THEN "convert_time_to_years"
    ELSE IF op = "best_gestation_days" THEN "convert_time_to_days"
    ELSE "convert_speed_to_mph"

\* The units that each converter recognizes
Recognized(op) ==
    IF op = "convert_mass_to_kg" THEN {Q_KG, Q_G, Q_MG, Q_TONNE, Q_LB}
    ELSE IF op = "convert_speed_to_mph" THEN {Q_MPH, Q_KMH, Q_MPS, Q_KNOT}
    ELSE {Q_DAY, Q_WEEK, Q_MONTH, Q_YEAR}

\* The positions of the authoritative statements sts that hold a quantity
\* with a numeric amount and with a unit that the converter of op
\* recognizes
Convertible(op, sts) ==
    {i \in 1..Len(sts) :
        /\ "value" \in DOMAIN sts[i]
        /\ sts[i].value.type = "quantity"
        /\ "amount" \in DOMAIN sts[i].value
        /\ as_decimal(sts[i].value.amount) /= <<>>
        /\ unit_qid_from_uri(DictGet(sts[i].value, "unit", <<>>))
               \in Recognized(ConverterOf(op))}

\* The positions of the authoritative statements whose quantity has a unit
\* that the converter of op does not recognize
Unconvertible(op, sts) ==
    {i \in 1..Len(sts) :
        /\ "value" \in DOMAIN sts[i]
        /\ sts[i].value.type = "quantity"
        /\ "amount" \in DOMAIN sts[i].value
        /\ as_decimal(sts[i].value.amount) /= <<>>
        /\ unit_qid_from_uri(DictGet(sts[i].value, "unit", <<>>))
               \notin Recognized(ConverterOf(op))}

CanonicalAt(op, sts, i) ==
    ConvertOf(op, as_decimal(sts[i].value.amount)[1],
              unit_qid_from_uri(DictGet(sts[i].value, "unit", <<>>)))[1]

\* C17: each converter returns None for a unit it does not recognize, an
\* absent unit included, and a value for each unit it recognizes; a
\* statement with such a unit adds nothing to the trait, which is the
\* largest canonical value of the other authoritative statements.
C17_UnknownUnitIsNone ==
    /\ last.op \in ConverterOps =>
          (last.result = <<>>) = (args.unit_qid \notin Recognized(last.op))
    /\ last.op \in AggregateOps =>
          LET sts == pick_best_statements(DictGet(EntityOf(args), PropOf(last.op), <<>>))
              ok == Convertible(last.op, sts)
          IN  IF ok = {} THEN last.result = <<>>
              ELSE \E i \in ok :
                      /\ last.result = <<float(CanonicalAt(last.op, sts, i))>>
                      /\ \A j \in ok : ~DecLess(CanonicalAt(last.op, sts, i),
                                                CanonicalAt(last.op, sts, j))

\* The lifespan statements [50 kg, 12 months, 1 year] are all
\* authoritative; the first has a unit that is not one of time, and the
\* lifespan is 1 year.
C17_Witness ==
    /\ last.op = "best_lifespan_yr"
    /\ args.trait = "lifespan"
    /\ Len(args.statements) = 3
    /\ \A i \in 1..3 : RankOf(args.statements[i]) = "normal"
    /\ Unconvertible(last.op, args.statements) = {1}
    /\ Convertible(last.op, args.statements) = {2, 3}
    /\ last.result = <<float(Literal(<<"1">>))>>

\* value * num * 10^shift, computed on the digits without rounding
Scaled(value, num, shift) == Dec(value.neg, BigMul(value.coef, num), value.exp + shift)

\* The table of the factors
TableDays(value, unit_qid) ==
    IF unit_qid = Q_DAY THEN value
    ELSE IF unit_qid = Q_WEEK THEN Scaled(value, <<7>>, 0)
    ELSE IF unit_qid = Q_MONTH THEN Scaled(value, <<3,0,4,3,7,5>>, 0 - 4)
    ELSE Scaled(value, <<3,6,5,2,5>>, 0 - 2)

TableKg(value, unit_qid) ==
    IF unit_qid = Q_KG THEN value
    ELSE IF unit_qid = Q_G THEN Scaled(value, <<1>>, 0 - 3)
    ELSE IF unit_qid = Q_MG THEN Scaled(value, <<1>>, 0 - 6)
    ELSE Scaled(value, <<1>>, 3)

TableYears(value, unit_qid) ==
    IF unit_qid = Q_YEAR THEN value
    ELSE DecDiv(TableDays(value, unit_qid), Literal(<<"3","6","5",".","2","5">>))

\* C18: for the units of the table the converters give the value times or
\* divided by the factor of the table, in decimal arithmetic: kg, g, mg and
\* tonnes to kg; days, weeks, months and years to days; years, and days
\* divided by 365.25, to years; 1000 g are 1 kg, 1 year is 365.25 days and
\* 1 knot is 1.15077944802354 mph.
C18_FactorTable ==
    /\ (last.op = "convert_mass_to_kg" /\ args.unit_qid \in {Q_KG, Q_G, Q_MG, Q_TONNE})
          => last.result = <<TableKg(args.value, args.unit_qid)>>
    /\ (last.op = "convert_time_to_days" /\ args.unit_qid \in {Q_DAY, Q_WEEK, Q_MONTH, Q_YEAR})
          => last.result = <<TableDays(args.value, args.unit_qid)>>
    /\ (last.op = "convert_time_to_years" /\ args.unit_qid \in {Q_DAY, Q_WEEK, Q_MONTH, Q_YEAR})
          => last.result = <<TableYears(args.value, args.unit_qid)>>
    /\ (last.op = "convert_mass_to_kg" /\ args = [value |-> Literal(<<"1","0","0","0">>), unit_qid |-> Q_G])
          => last.result = <<Literal(<<"1">>)>>
    /\ (last.op = "convert_time_to_days" /\ args = [value |-> Literal(<<"1">>), unit_qid |-> Q_YEAR])
          => last.result = <<Literal(<<"3","6","5",".","2","5">>)>>
    /\ (last.op = "convert_speed_to_mph" /\ args = [value |-> Literal(<<"1">>), unit_qid |-> Q_KNOT])
          => last.result = <<Literal(<<"1",".","1","5","0","7","7","9","4","4","8","0","2","3","5","4">>)>>

\* 2.5 months have been converted to 76.09375 days.
C18_Witness ==
    /\ last.op = "convert_time_to_days"
    /\ args = [value |-> Literal(<<"2",".","5">>), unit_qid |-> Q_MONTH]
    /\ last.result = <<Literal(<<"7","6",".","0","9","3","7","5">>)>>

(***************************************************************************)
(* Claims about the litter size, checked under SpecTraits.                 *)
(***************************************************************************)
\* The positions of the authoritative statements sts that hold a quantity
\* with a numeric amount and no unit: the unit is missing, empty or "1"
Unitless(sts) ==
    {i \in 1..Len(sts) :
        /\ "value" \in DOMAIN sts[i]
        /\ sts[i].value.type = "quantity"
        /\ "amount" \in DOMAIN sts[i].value
        /\ as_decimal(sts[i].value.amount) /= <<>>
        /\ DictGet(sts[i].value, "unit", <<>>) \in {<<>>, <<"1">>}}

AmountAt(sts, i) == as_decimal(sts[i].value.amount)[1]

\* C19: the litter size is the largest amount of the authoritative litter
\* statements that carry no unit; a statement with a unit is left out even
\* when its amount is the largest, and the litter size is None when every
\* authoritative statement carries a unit.
C19_LitterIsMaxOfUnitless ==
    last.op = "best_litter_size" =>
        LET sts == pick_best_statements(DictGet(EntityOf(args), P_LITTER, <<>>))
            free == Unitless(sts)
        IN  IF free = {} THEN last.result = <<>>
            ELSE \E i \in free :
                    /\ last.result = <<float(AmountAt(sts, i))>>
                    /\ \A j \in free : ~DecLess(AmountAt(sts, i), AmountAt(sts, j))

\* The litter statements [4 with unit "1", 9 kg, 2 without a unit] are all
\* authoritative; the largest amount has a unit, and the litter size is 4.
C19_Witness ==
    /\ last.op = "best_litter_size"
    /\ args.trait = "litter"
    /\ Len(args.statements) = 3
    /\ \A i \in 1..3 : RankOf(args.statements[i]) = "normal"
    /\ Unitless(args.statements) = {1, 3}
    /\ DecLess(AmountAt(args.statements, 1), AmountAt(args.statements, 2))
    /\ last.result = <<float(Literal(<<"4">>))>>

(***************************************************************************)
(* Claims about the sentinel of the legacy file, checked under SpecLegacy. *)
(***************************************************************************)
\* The fields of the legacy rows that print a number equal to or below
\* -999.0, and those that are empty or no number
SentinelFields == {NoData, NoData2, BelowData}

EmptyFields == {<<>>, NotNumber}

\* The mapped columns of a legacy row whose field gives a value
Valued(pantheria_row) ==
    {i \in 1..Len(PANTHERIA_TO_TARGET) :
        pantheria_row[PANTHERIA_TO_TARGET[i][1]] \notin SentinelFields \cup EmptyFields}

\* C20: a legacy field equal to or below -999.0 is absent for
\* parse_pantheria_number, as an empty field and a field that is no number
\* are: it fills no target column, the row keeps what it had in the column
\* (blank when it had nothing), and it does not count toward the two
\* filled traits that a row needs.
C20_SentinelIsAbsence ==
    /\ (last.op = "fill" /\ last.match /= <<>>) =>
          /\ \A i \in (1..Len(PANTHERIA_TO_TARGET)) \ Valued(last.match[1]) :
                /\ parse_pantheria_number(last.match[1][PANTHERIA_TO_TARGET[i][1]]) = <<>>
                /\ last.row[PANTHERIA_TO_TARGET[i][2]]
                       = DictGet(last.input, PANTHERIA_TO_TARGET[i][2], <<>>)
          /\ last.mapped_count = Cardinality(Valued(last.match[1]))
          /\ (last.outcome = "kept") = (Cardinality(Valued(last.match[1])) >= 2)
    /\ (/\ last.op = "pop" /\ last.match /= <<>>
        /\ last.match[1][PANTHERIA_POP_COLUMN] \in SentinelFields \cup EmptyFields) =>
          /\ last.outcome = "missing_trait"
          /\ last.row[target_column] = DictGet(last.input, target_column, <<>>)

\* A row with mass_kg 9 has matched a legacy row whose mass is -999.00,
\* whose gestation is empty and whose longevity is no number: the row still
\* has mass_kg 9, one trait is counted and the row is dropped.
C20_Witness ==
    /\ last.op = "fill" /\ last.match /= <<>>
    /\ last.match[1]["5-1_AdultBodyMass_g"] = NoData2
    /\ last.match[1]["9-1_GestationLen_d"] = <<>>
    /\ last.match[1]["17-1_MaxLongevity_m"] = NotNumber
    /\ "mass_kg" \in DOMAIN last.input
    /\ last.row["mass_kg"] = <<"9">>
    /\ last.mapped_count = 1
    /\ last.outcome = "dropped_too_sparse"

(***************************************************************************)
(* Claims about extract_quantity_claims, checked under SpecTraits.         *)
(***************************************************************************)
\* The amount without the blanks around it and without a leading "+"
Unsigned(amount) ==
    IF str_strip(amount) /= <<>> /\ Head(str_strip(amount)) = "+"
    THEN Tail(str_strip(amount))
    ELSE str_strip(amount)

\* A numeral: digits with at most one point among them
IsNumeral(s) ==
    /\ \A i \in 1..Len(s) : IsDigit(s[i]) \/ s[i] = "."
    /\ \E i \in 1..Len(s) : IsDigit(s[i])
    /\ Cardinality({i \in 1..Len(s) : s[i] = "."}) <= 1

\* The number that a numeral writes: its digits, and as many decimals as it
\* has digits after the point
NumberOf(s) ==
    Dec(FALSE,
        [k \in 1..Len(SelectSeq(s, IsDigit)) |-> DigitValue(SelectSeq(s, IsDigit)[k])],
        0 - Cardinality({i \in 1..Len(s) : \E d \in 1..(i - 1) : s[d] = "."}))

\* The positions of the statements sts that hold a quantity with a numeric
\* amount
WithNumber(sts) ==
    {i \in 1..Len(sts) :
        /\ "value" \in DOMAIN sts[i]
        /\ sts[i].value.type = "quantity"
        /\ "amount" \in DOMAIN sts[i].value
        /\ IsNumeral(Unsigned(sts[i].value.amount))}

\* The k-th position of the set of positions I
Nth(I, k) == CHOOSE i \in I : Cardinality({j \in I : j < i}) = k - 1

\* C21: extract_quantity_claims gives, in their order, the number and the
\* unit of each authoritative statement whose quantity has a numeric
\* amount, and nothing for a statement without a value, without an amount
\* or with an amount that is no number; the number of an amount with a
\* leading "+" is the number of its digits.
C21_BadStatementSkipped ==
    last.op = "extract_quantity_claims" =>
        LET sts == pick_best_statements(DictGet(EntityOf(args), PropertyOf[args.trait], <<>>))
            ok == WithNumber(sts)
        IN  last.result =
                [k \in 1..Cardinality(ok) |->
                    [value |-> NumberOf(Unsigned(sts[Nth(ok, k)].value.amount)),
                     unit |-> unit_qid_from_uri(
                                  DictGet(sts[Nth(ok, k)].value, "unit", <<>>))]]

\* The mass statements ["abc" kg, +0.5 t, +700 without unit] are all
\* authoritative: the first gives nothing, the others 0.5 t and 700.
C21_Witness ==
    /\ last.op = "extract_quantity_claims"
    /\ args.trait = "mass"
    /\ Len(args.statements) = 3
    /\ \A i \in 1..3 : RankOf(args.statements[i]) = "normal"
    /\ WithNumber(args.statements) = {2, 3}
    /\ "amount" \in DOMAIN args.statements[1].value
    /\ args.statements[1].value.amount = <<"a","b","c">>
    /\ last.result = << [value |-> Literal(<<"0",".","5">>), unit |-> Q_TONNE],
                        [value |-> Literal(<<"7","0","0">>), unit |-> None] >>

(***************************************************************************)
(* normalize_name on its own: the calls of the function on short texts of  *)
(* capitals, small letters, spaces and tabs, and on None.                  *)
(***************************************************************************)
MaxNameLen == 4

NameChars == {"A", "b", " ", "\t"}

NameInputs == {None} \cup UNION {[1..n -> NameChars] : n \in 0..MaxNameLen}

InitNames ==
    /\ prog = "normalize_name"
    /\ pc = "call"
    /\ args \in [value : NameInputs]
    /\ rows = <<>>
    /\ stats = <<>>
    /\ last = [op |-> "none"]
    /\ pantheria_file = <<>>
    /\ index = <<>>
    /\ label_cache = <<>>
    /\ page_cache = <<>>
    /\ file_url_cache = <<>>
    /\ requests = <<>>

NormalizeName ==
    /\ prog = "normalize_name" /\ pc = "call"
    /\ pc' = "done"
    /\ last' = [op |-> "normalize_name", result |-> normalize_name(args.value)]
    /\ UNCHANGED <<prog, args, rows, stats, legacy_vars, media_vars>>

NextNames == NormalizeName

SpecNames == InitNames /\ [][NextNames]_vars

(***************************************************************************)
(* Claims about normalize_name, checked under SpecNames.                   *)
(***************************************************************************)
NotSpace(c) == ~IsSpace(c)

\* The text of an argument of normalize_name: "" for None
TextOf(value) == IF value = None THEN <<>> ELSE value

\* C22: normalize_name of its own result is that result; the result has no
\* capital letter, no blank at either end, no blank other than a space and
\* no two spaces in a row; it holds the letters of the input in their
\* order; it is "" for an input that is None, empty or all blanks.
C22_NormalizeIdempotent ==
    last.op = "normalize_name" =>
        /\ normalize_name(last.result) = last.result
        /\ \A i \in 1..Len(last.result) :
              /\ \A u \in 1..Len(UpperChars) : last.result[i] /= UpperChars[u]
              /\ IsSpace(last.result[i]) => last.result[i] = " "
        /\ last.result /= <<>> =>
              NotSpace(last.result[1]) /\ NotSpace(last.result[Len(last.result)])
        /\ \A i \in 1..(Len(last.result) - 1) :
              ~(last.result[i] = " " /\ last.result[i + 1] = " ")
        /\ SelectSeq(last.result, NotSpace)
               = str_lower(SelectSeq(TextOf(args.value), NotSpace))
        /\ (\A i \in 1..Len(TextOf(args.value)) : IsSpace(TextOf(args.value)[i]))
               => last.result = <<>>

\* "A", a space, a tab and "b" have become "a b".
C22_Witness ==
    /\ last.op = "normalize_name"
    /\ args.value = <<"A", " ", "\t", "b">>
    /\ last.result = <<"a", " ", "b">>

(***************************************************************************)
(* The nesting of the two image counters of build_csv, checked under       *)
(* SpecBuild.                                                              *)
(***************************************************************************)
\* The latest step processed a candidate that ended with no image
RejectedForImage == last.op = "candidate" /\ last.image = <<>>

\* C23: skipped_map_only never exceeds skipped_no_image; a step that adds to
\* skipped_map_only adds one to both counters; skipped_no_image grows by one
\* exactly at the candidates that end with no image, and by nothing else.
C23_MapOnlyNestedInNoImage ==
    /\ [](prog = "build_csv" => stats.skipped_map_only <= stats.skipped_no_image)
    /\ [][ prog = "build_csv" =>
             /\ stats'.skipped_map_only /= stats.skipped_map_only =>
                   /\ stats'.skipped_map_only = stats.skipped_map_only + 1
                   /\ stats'.skipped_no_image = stats.skipped_no_image + 1
                   /\ RejectedForImage'
             /\ stats'.skipped_no_image =
                   stats.skipped_no_image
                       + (IF stats'.scanned /= stats.scanned /\ RejectedForImage'
                          THEN 1 ELSE 0) ]_vars

\* Two candidates were rejected for lack of an image, the latest of them
\* for a map-like primary without an acceptable alternate.
C23_Witness ==
    /\ prog = "build_csv"
    /\ RejectedForImage
    /\ AlternatesExhausted
    /\ stats.skipped_map_only = 1
    /\ stats.skipped_no_image = 2
    /\ rows = <<>>

(***************************************************************************)
(* The runs of the three scripts that count their input rows:              *)
(* fill_and_filter_mammals, fill_population_group_size, add_sound_column.  *)
(***************************************************************************)
InitCounters == InitLegacy \/ InitSound

NextCounters ==
    \/ LoadRow
    \/ EndLoad
    \/ FillRow
    \/ FillDone
    \/ PopRow
    \/ PopDone
    \/ SoundKeep
    \/ SoundNoTitle
    \/ SoundLookup
    \/ SoundDone

SpecCounters == InitCounters /\ [][NextCounters]_vars

(***************************************************************************)
(* Claims about the row counters, checked under SpecCounters.              *)
(***************************************************************************)
\* add_sound_column: every row is in exactly one of filled, left_blank and
\* already_had_value; the rows without a title and the failed lookups are
\* among the blank ones.
SoundRowsCounted ==
    prog = "add_sound_column" =>
        /\ stats.total = stats.filled + stats.left_blank + stats.already_had_value
        /\ stats.missing_title <= stats.left_blank
        /\ stats.errors <= stats.left_blank
        /\ stats.total = Len(rows)

\* fill_population_group_size: every row is matched or not, every matched
\* row is filled or lacks the trait.
PopRowsCounted ==
    prog = "fill_population_group_size" =>
        /\ stats.total = stats.matched + stats.no_match
        /\ stats.matched = stats.filled + stats.missing_trait
        /\ stats.total = Len(rows)

\* C24 as stated: after every processed row the counters of each script add
\* up to total, the counter kept among them.
C24_EachRowInOneCounter ==
    /\ SoundRowsCounted
    /\ PopRowsCounted
    /\ prog = "fill_and_filter_mammals" =>
          stats.total = stats.dropped_no_match + stats.dropped_too_sparse + stats.kept

\* C24, amended: after every processed row the counters of add_sound_column
\* and of fill_population_group_size add up to total; in
\* fill_and_filter_mammals total is dropped_no_match + dropped_too_sparse +
\* the number of kept rows, while the counter kept stays 0 during the loop
\* and is the number of kept rows once the loop has ended.
C24_EachRowCountedOnce ==
    /\ SoundRowsCounted
    /\ PopRowsCounted
    /\ prog = "fill_and_filter_mammals" =>
          /\ stats.total = stats.dropped_no_match + stats.dropped_too_sparse + Len(rows)
          /\ stats.kept = IF pc = "done" THEN Len(rows) ELSE 0

\* fill_and_filter_mammals has ended with one row kept and one dropped for
\* lack of a match.
C24_Witness ==
    /\ prog = "fill_and_filter_mammals"
    /\ pc = "done"
    /\ stats.total = 2
    /\ stats.kept = 1
    /\ stats.dropped_no_match = 1

\* add_sound_column has counted a failed lookup among the blank rows.
C24_WitnessSound ==
    /\ prog = "add_sound_column"
    /\ stats.errors = 1
    /\ stats.left_blank = 2
    /\ stats.missing_title = 1

\* fill_population_group_size has matched two rows, one of them without the
\* trait.
C24_WitnessPop ==
    /\ prog = "fill_population_group_size"
    /\ stats.matched = 2
    /\ stats.filled = 1
    /\ stats.missing_trait = 1

====
